---------------------------- MODULE Spec2Model ----------------------------
(***************************************************************************)
(* Token proximity-based smart lock: the validation service (Express +     *)
(* SQLite, src/unnamed/part_001 and part_002) and the two door-controller  *)
(* firmwares (src/firmware/main.ino, src/unnamed/part_000).                *)
(*                                                                         *)
(* Conventions                                                             *)
(*  - Timestamps and durations are in seconds (the code's are the same     *)
(*    numbers times 1000; TLC's integers are 32 bits wide).  The clock     *)
(*    advances in steps of CLEANUP_TOKEN_INTERVAL_MS (30 s).               *)
(*  - A JavaScript value that may be undefined is a sequence of length 0   *)
(*    (undefined) or 1 (the value).                                        *)
(*  - Door identifiers and permission strings are sequences of characters, *)
(*    so that String.prototype.includes is modelled as what it is: a       *)
(*    substring test.                                                      *)
(*  - genRandomToken draws 72 random bits; the model names the tokens      *)
(*    1, 2, ... in the order of issuance (a token string is never drawn    *)
(*    twice).                                                              *)
(***************************************************************************)
EXTENDS Integers, Sequences, FiniteSets, TLC

\* ------------------------------------------------------------------ bounds
\* Number of clock steps a run may take.
MaxTicks == 2
\* Number of short tokens a run may issue.
MaxTokens == 2
\* The most LiDAR frames that arrive within one read of the sensor.
MaxFrames == 2

\* --------------------------------------------------------------- constants
SHORT_TOKEN_TTL_MS == 60
CLEANUP_TOKEN_INTERVAL_MS == 30
RSSI_THRESHOLD == -70
DISTANCE_THRESHOLD == 90
WINDOW_MS == 180
MAX_REQUESTS == 3
\* enroll's default lifetime of a credential: 120 days
DEFAULT_ENROLL_MS == 120 * 24 * 60 * 60

\* ----------------------------------------------------------------- strings
Undefined == <<>>
Some(v) == <<v>>
IsDefined(x) == x # <<>>
Val(x) == x[1]

ALL == <<"A", "L", "L">>
LAB_968 == <<"L", "A", "B", "_", "9", "6", "8">>
LAB_969 == <<"L", "A", "B", "_", "9", "6", "9">>
LAB_96 == <<"L", "A", "B", "_", "9", "6">>

\* perms.includes(doorId): doorId occurs in perms as a substring.
Includes(s, sub) ==
    \E i \in 0..(Len(s) - Len(sub)) : SubSeq(s, i + 1, i + Len(sub)) = sub

\* const canAccess = perms === "ALL" || perms.includes(doorId);
CanAccess(perms, doorId) == perms = ALL \/ Includes(perms, doorId)

\* ------------------------------------------------------------------ inputs
ALICE == "ALICE_ENROLLMENT_TOKEN"
EVE == "EVE_ENROLLMENT_TOKEN"
ALICE_ID == "40000000"
EVE_ID == "60000000"

Credentials == {ALICE, EVE}
StudentIds == {ALICE_ID, EVE_ID}
DoorIds == {LAB_968, LAB_969, LAB_96}
PermissionInputs == {Undefined, LAB_968}
RssiInputs == {Undefined, Some(RSSI_THRESHOLD - 1), Some(RSSI_THRESHOLD)}
DistanceInputs == {Undefined, Some(DISTANCE_THRESHOLD), Some(DISTANCE_THRESHOLD + 1)}
TokenIds == 1..MaxTokens

\* The clock when a run begins (one window and one sweep interval after the
\* earliest timestamp a stored row can hold) and the last instant it reaches.
StartMs == WINDOW_MS + CLEANUP_TOKEN_INTERVAL_MS
EndMs == StartMs + MaxTicks * CLEANUP_TOKEN_INTERVAL_MS

\* ------------------------------------------------------------------- state
VARIABLES
    enrollments,    \* table enrollments: token -> [permissions, created_at, expires_at]
    identity_map,   \* table identity_map: student_id -> token
    short_tokens,   \* table short_tokens: token -> [enrollment_token, expires_at, used]
    rate_limits,    \* table rate_limits: enrollment_token -> [requests, suspended_until]
    now,            \* Date.now()
    issued,         \* number of tokens genRandomToken has produced
    grants,         \* history: token -> number of {granted: true} responses sent
    res,            \* the request handled by the last step and its response
    handlers,       \* the /validate requests in progress: handler -> its position and locals
    controller      \* the door controller: firmware variant, position, servo and locals

vars == <<enrollments, identity_map, short_tokens, rate_limits, now, issued, grants, res,
          handlers, controller>>
\* The validation service's tables, clock and history.
service == <<enrollments, identity_map, short_tokens, rate_limits, now, issued, grants, res,
             handlers>>

\* ------------------------------------------------------------ table helpers
Put(f, k, v) == [x \in (DOMAIN f) \cup {k} |-> IF x = k THEN v ELSE f[x]]
Remove(f, ks) == [x \in (DOMAIN f) \ ks |-> f[x]]
EmptyTable == [x \in {} |-> 0]

\* dbGet: the row, or undefined.
Get(table, k) == IF k \in DOMAIN table THEN Some(table[k]) ELSE Undefined

\* The request handled by a step and the response sent for it: the
\* operation, the request's fields (token = 0, cred = "" and Undefined stand
\* for a field the request does not carry), the HTTP status, granted, and
\* the reason, error or status text.
Response(op, token, cred, doorId, rssi, distanceCm, code, granted, text) ==
    [op |-> op, token |-> token, cred |-> cred, doorId |-> doorId, rssi |-> rssi,
     distanceCm |-> distanceCm, code |-> code, granted |-> granted, text |-> text]
NoResponse == Response("none", 0, "", Undefined, Undefined, Undefined, 0, FALSE, "")

\* Servo positions: myservo.write(0) locks, myservo.write(90) unlocks.
LOCKED == 0
UNLOCKED == 90
\* The value getRobustLidarDistance returns when no frame was accepted.
LIDAR_TIMEOUT == 999
\* The length of a short token: 2 * SHORT_TOKEN_BYTES hexadecimal digits.
TOKEN_LENGTH == 18

\* A response body as ArduinoJson reads it: the fields "granted" and "reason",
\* each present or not (neither is, in an error body or an unparsable one).
Body(granted, reason) == [granted |-> granted, reason |-> reason]
NoBody == Body(Undefined, Undefined)

\* The door controller after setup(): locked, waiting for a token.
Boot(variant) ==
    [variant |-> variant, state |-> "Idle", servo |-> LOCKED, tokenLength |-> 0,
     stream |-> <<>>, distance |-> 0, rssi |-> 0, httpCode |-> 0, body |-> NoBody,
     granted |-> FALSE, reason |-> ""]

\* The handlers that may run /validate requests concurrently.
Handlers == {"h1", "h2"}
\* A handler with no request in progress.
IdleHandler ==
    [pc |-> "idle", token |-> 0, doorId |-> Undefined, rssi |-> Undefined,
     distanceCm |-> Undefined, owner |-> "", used |-> 0, reason |-> ""]

\* ------------------------------------------------------------ POST /validate
\* A handler that takes a token to be expired only after its expiry instant.
EntryVerdictStrictExpiry(entry, time) ==
    IF ~IsDefined(entry) THEN "unknown_or_expired"
    ELSE IF Val(entry).expires_at < time THEN "expired"
    ELSE IF Val(entry).used = 1 THEN "already_used"
    ELSE IF Val(entry).used = 2 THEN "already_denied"
    ELSE "continue"

\* A handler that does not look at used = 1 (a Granted row is validated again).
EntryVerdictIgnoresGranted(entry, time) ==
    IF ~IsDefined(entry) THEN "unknown_or_expired"
    ELSE IF Val(entry).expires_at <= time THEN "expired"
    ELSE IF Val(entry).used = 2 THEN "already_denied"
    ELSE "continue"

\* Lines 229-236: what the handler does with the short_tokens row it read.
EntryVerdict(entry, time) ==
    IF ~IsDefined(entry) THEN "unknown_or_expired"
    ELSE IF Val(entry).expires_at <= time THEN "expired"
    ELSE IF Val(entry).used = 1 THEN "already_used"
    ELSE IF Val(entry).used = 2 THEN "already_denied"
    ELSE "continue"

\* A handler that does not notice that the credential row is gone and goes on
\* to the sensor checks.
DecisionIgnoresRevocation(user, doorId, rssi, distanceCm) ==
    IF IsDefined(user) /\ ~CanAccess(Val(user).permissions, doorId)
    THEN [used |-> 2, reason |-> "insufficient_permissions"]
    ELSE IF IsDefined(rssi) /\ Val(rssi) < RSSI_THRESHOLD
    THEN [used |-> 2, reason |-> "rssi_too_weak"]
    ELSE IF IsDefined(distanceCm) /\ Val(distanceCm) > DISTANCE_THRESHOLD
    THEN [used |-> 2, reason |-> "distance_too_far"]
    ELSE [used |-> 1, reason |-> ""]

\* A handler that checks the distance before the signal.
DecisionDistanceFirst(user, doorId, rssi, distanceCm) ==
    IF ~IsDefined(user)
    THEN [used |-> 2, reason |-> "access_revoked"]
    ELSE IF ~CanAccess(Val(user).permissions, doorId)
    THEN [used |-> 2, reason |-> "insufficient_permissions"]
    ELSE IF IsDefined(distanceCm) /\ Val(distanceCm) > DISTANCE_THRESHOLD
    THEN [used |-> 2, reason |-> "distance_too_far"]
    ELSE IF IsDefined(rssi) /\ Val(rssi) < RSSI_THRESHOLD
    THEN [used |-> 2, reason |-> "rssi_too_weak"]
    ELSE [used |-> 1, reason |-> ""]

\* A handler whose thresholds exclude the boundary values.
DecisionBoundaryDenied(user, doorId, rssi, distanceCm) ==
    IF ~IsDefined(user)
    THEN [used |-> 2, reason |-> "access_revoked"]
    ELSE IF ~CanAccess(Val(user).permissions, doorId)
    THEN [used |-> 2, reason |-> "insufficient_permissions"]
    ELSE IF IsDefined(rssi) /\ Val(rssi) <= RSSI_THRESHOLD
    THEN [used |-> 2, reason |-> "rssi_too_weak"]
    ELSE IF IsDefined(distanceCm) /\ Val(distanceCm) >= DISTANCE_THRESHOLD
    THEN [used |-> 2, reason |-> "distance_too_far"]
    ELSE [used |-> 1, reason |-> ""]

\* Lines 238-279: the value written to short_tokens.used and the reason sent,
\* from the enrollments row read (or undefined) and the request's fields.
Decision(user, doorId, rssi, distanceCm) ==
    IF ~IsDefined(user)
    THEN [used |-> 2, reason |-> "access_revoked"]
    ELSE IF ~CanAccess(Val(user).permissions, doorId)
    THEN [used |-> 2, reason |-> "insufficient_permissions"]
    ELSE IF IsDefined(rssi) /\ Val(rssi) < RSSI_THRESHOLD
    THEN [used |-> 2, reason |-> "rssi_too_weak"]
    ELSE IF IsDefined(distanceCm) /\ Val(distanceCm) > DISTANCE_THRESHOLD
    THEN [used |-> 2, reason |-> "distance_too_far"]
    ELSE [used |-> 1, reason |-> ""]

\* An UPDATE without its WHERE clause: every row is written.
SetUsedEveryRow(tokens, token, used) ==
    [t \in DOMAIN tokens |-> [tokens[t] EXCEPT !.used = used]]

\* UPDATE short_tokens SET used = ? WHERE token = ?  (no row: nothing changes)
SetUsed(tokens, token, used) ==
    IF token \in DOMAIN tokens THEN [tokens EXCEPT ![token].used = used] ELSE tokens

\* One whole /validate request, handled with no other handler in between:
\* what it does to the database and what it answers.  token = 0 and
\* doorId = Undefined stand for a missing field.
ValidateRequest(token, doorId, rssi, distanceCm) ==
    LET Reply(code, granted, text) ==
            Response("validate", token, "", doorId, rssi, distanceCm, code, granted, text)
        entry == Get(short_tokens, token)
        verdict == EntryVerdict(entry, now)
        user == Get(enrollments, Val(entry).enrollment_token)
        d == Decision(user, doorId, rssi, distanceCm)
    IN  /\ UNCHANGED handlers
        /\ UNCHANGED <<enrollments, identity_map, rate_limits, now, issued>>
        /\ IF token = 0
           THEN /\ res' = Reply(400, FALSE, "token required")
                /\ UNCHANGED <<short_tokens, grants>>
           ELSE IF ~IsDefined(doorId)
           THEN /\ res' = Reply(400, FALSE, "doorId required")
                /\ UNCHANGED <<short_tokens, grants>>
           ELSE IF verdict = "expired"
           THEN /\ short_tokens' = Remove(short_tokens, {token})
                /\ res' = Reply(403, FALSE, "expired")
                /\ UNCHANGED grants
           ELSE IF verdict # "continue"
           THEN /\ res' = Reply(403, FALSE, verdict)
                /\ UNCHANGED <<short_tokens, grants>>
           ELSE /\ short_tokens' = SetUsed(short_tokens, token, d.used)
                /\ res' = Reply(IF d.used = 1 THEN 200 ELSE 403, d.used = 1, d.reason)
                /\ grants' = IF d.used = 1
                             THEN [grants EXCEPT ![token] = @ + 1]
                             ELSE grants

\* A /validate request sent by any client; the door controller is elsewhere.
Validate(token, doorId, rssi, distanceCm) ==
    /\ ValidateRequest(token, doorId, rssi, distanceCm)
    /\ UNCHANGED controller

\* ------------------------------------------------------ POST /request-token
\* A filter that keeps only the timestamps of the last token lifetime.
FilterWindowTooShort(requests, time) ==
    SelectSeq(requests, LAMBDA ts : ts > time - SHORT_TOKEN_TTL_MS)

\* rateData.requests.filter(ts => ts > now - WINDOW_MS)
FilterWindow(requests, time) ==
    SelectSeq(requests, LAMBDA ts : ts > time - WINDOW_MS)

\* A handler that reads the timestamps but not the suspension.
RateDataForgetsSuspension(cred) ==
    IF cred \in DOMAIN rate_limits
    THEN [requests |-> rate_limits[cred].requests, suspended_until |-> 0]
    ELSE [requests |-> <<>>, suspended_until |-> 0]

\* The rate_limits row read at line 164, or the default structure.
RateData(cred) ==
    IF cred \in DOMAIN rate_limits
    THEN rate_limits[cred]
    ELSE [requests |-> <<>>, suspended_until |-> 0]

\* A suspension that keeps the timestamps it should clear.
SuspensionKeepsRequests(requests, time) ==
    [requests |-> requests, suspended_until |-> time + WINDOW_MS]

\* Lines 180-183: the row written when the pruned list is full.
Suspension(requests, time) ==
    [requests |-> <<>>, suspended_until |-> time + WINDOW_MS]

\* A handler that runs rate-limit admission before it looks at the credential.
RequestTokenRateFirst(cred, cap) ==
    LET Reply(token, code, text) ==
            Response("request-token", token, cred, Undefined, Undefined, Undefined,
                     code, FALSE, text)
        user == Get(enrollments, cred)
        rateData == RateData(cred)
        pruned == FilterWindow(rateData.requests, now)
        tokenStr == issued + 1
    IN  /\ UNCHANGED <<handlers, controller>>
        /\ UNCHANGED <<enrollments, identity_map, now, grants>>
        /\ IF cred = ""
           THEN /\ res' = Reply(0, 400, "enrollmentToken required")
                /\ UNCHANGED <<short_tokens, rate_limits, issued>>
           ELSE IF rateData.suspended_until > now
           THEN /\ res' = Reply(0, 429, "rate_limited")
                /\ UNCHANGED <<short_tokens, rate_limits, issued>>
           ELSE IF Len(pruned) >= MAX_REQUESTS
           THEN /\ rate_limits' = Put(rate_limits, cred, Suspension(pruned, now))
                /\ res' = Reply(0, 429, "rate_limited")
                /\ UNCHANGED <<short_tokens, issued>>
           ELSE IF ~IsDefined(user)
           THEN /\ res' = Reply(0, 403, "unknown enrollmentToken")
                /\ UNCHANGED <<short_tokens, rate_limits, issued>>
           ELSE IF Val(user).expires_at < now
           THEN /\ res' = Reply(0, 403, "enrollment_expired")
                /\ UNCHANGED <<short_tokens, rate_limits, issued>>
           ELSE /\ issued < cap
                /\ rate_limits' = Put(rate_limits, cred,
                                      [requests |-> Append(pruned, now),
                                       suspended_until |-> 0])
                /\ short_tokens' = Put(short_tokens, tokenStr,
                                       [enrollment_token |-> cred,
                                        expires_at |-> now + SHORT_TOKEN_TTL_MS,
                                        used |-> 0])
                /\ issued' = issued + 1
                /\ res' = Reply(tokenStr, 200, "")

\* One whole /request-token request.  cred = "" stands for a missing field;
\* cap bounds the number of tokens issued in a behaviour.
RequestTokenUpTo(cred, cap) ==
    LET Reply(token, code, text) ==
            Response("request-token", token, cred, Undefined, Undefined, Undefined,
                     code, FALSE, text)
        user == Get(enrollments, cred)
        rateData == RateData(cred)
        pruned == FilterWindow(rateData.requests, now)
        tokenStr == issued + 1
    IN  /\ UNCHANGED <<handlers, controller>>
        /\ UNCHANGED <<enrollments, identity_map, now, grants>>
        /\ IF cred = ""
           THEN /\ res' = Reply(0, 400, "enrollmentToken required")
                /\ UNCHANGED <<short_tokens, rate_limits, issued>>
           ELSE IF ~IsDefined(user)
           THEN /\ res' = Reply(0, 403, "unknown enrollmentToken")
                /\ UNCHANGED <<short_tokens, rate_limits, issued>>
           ELSE IF Val(user).expires_at < now
           THEN /\ res' = Reply(0, 403, "enrollment_expired")
                /\ UNCHANGED <<short_tokens, rate_limits, issued>>
           ELSE IF rateData.suspended_until > now
           THEN /\ res' = Reply(0, 429, "rate_limited")
                /\ UNCHANGED <<short_tokens, rate_limits, issued>>
           ELSE IF Len(pruned) >= MAX_REQUESTS
           THEN /\ rate_limits' = Put(rate_limits, cred, Suspension(pruned, now))
                /\ res' = Reply(0, 429, "rate_limited")
                /\ UNCHANGED <<short_tokens, issued>>
           ELSE /\ issued < cap
                /\ rate_limits' = Put(rate_limits, cred,
                                      [requests |-> Append(pruned, now),
                                       suspended_until |-> 0])
                /\ short_tokens' = Put(short_tokens, tokenStr,
                                       [enrollment_token |-> cred,
                                        expires_at |-> now + SHORT_TOKEN_TTL_MS,
                                        used |-> 0])
                /\ issued' = issued + 1
                /\ res' = Reply(tokenStr, 200, "")

RequestToken(cred) == RequestTokenUpTo(cred, MaxTokens)

\* ------------------------------------------------------------- POST /enroll
\* One whole /enroll request.  The two INSERTs are separate statements: the
\* second can fail (student_id PRIMARY KEY, token UNIQUE) after the first
\* has been applied.
Enroll(adminOk, enrollmentToken, studentId, permissions, expiresAt) ==
    LET Reply(code, text) ==
            Response("enroll", 0, enrollmentToken, Undefined, Undefined, Undefined,
                     code, FALSE, text)
        expiry == IF IsDefined(expiresAt) THEN Val(expiresAt) ELSE now + DEFAULT_ENROLL_MS
        perms == IF IsDefined(permissions) THEN permissions ELSE ALL
        inserted == Put(enrollments, enrollmentToken,
                        [permissions |-> perms, created_at |-> now,
                         expires_at |-> expiry])
    IN  /\ UNCHANGED <<handlers, controller>>
        /\ UNCHANGED <<short_tokens, rate_limits, now, issued, grants>>
        /\ IF ~adminOk
           THEN /\ res' = Reply(403, "unauthorized")
                /\ UNCHANGED <<enrollments, identity_map>>
           ELSE IF enrollmentToken = "" \/ studentId = ""
           THEN /\ res' = Reply(400, "enrollmentToken and studentID required")
                /\ UNCHANGED <<enrollments, identity_map>>
           ELSE IF enrollmentToken \in DOMAIN enrollments
           THEN /\ res' = Reply(409, "token or studentId already exists")
                /\ UNCHANGED <<enrollments, identity_map>>
           ELSE IF \/ studentId \in DOMAIN identity_map
                   \/ \E s \in DOMAIN identity_map : identity_map[s] = enrollmentToken
           THEN /\ enrollments' = inserted
                /\ res' = Reply(409, "token or studentId already exists")
                /\ UNCHANGED identity_map
           ELSE /\ enrollments' = inserted
                /\ identity_map' = Put(identity_map, studentId, enrollmentToken)
                /\ res' = Reply(200, "ok")

\* -------------------------------------------------- POST /revoke-enrollment
Revoke(adminOk, studentId) ==
    LET Reply(code, text) ==
            Response("revoke", 0, "", Undefined, Undefined, Undefined, code, FALSE, text)
    IN  /\ UNCHANGED <<handlers, controller>>
        /\ UNCHANGED <<short_tokens, rate_limits, now, issued, grants>>
        /\ IF ~adminOk
           THEN /\ res' = Reply(403, "unauthorized")
                /\ UNCHANGED <<enrollments, identity_map>>
           ELSE IF studentId = ""
           THEN /\ res' = Reply(400, "studentId required")
                /\ UNCHANGED <<enrollments, identity_map>>
           ELSE IF studentId \notin DOMAIN identity_map
           THEN /\ res' = Reply(404, "student_not_found")
                /\ UNCHANGED <<enrollments, identity_map>>
           ELSE /\ enrollments' = Remove(enrollments, {identity_map[studentId]})
                /\ identity_map' = Remove(identity_map, {studentId})
                /\ res' = [Reply(200, "ok") EXCEPT !.cred = identity_map[studentId]]

\* --------------------------------------------------------- GET /check-status
CheckStatus(token) ==
    LET Reply(code, text) ==
            Response("check-status", token, "", Undefined, Undefined, Undefined,
                     code, FALSE, text)
        entry == Get(short_tokens, token)
    IN  /\ UNCHANGED <<handlers, controller>>
        /\ UNCHANGED <<enrollments, identity_map, short_tokens, rate_limits, now,
                       issued, grants, controller>>
        /\ res' = IF token = 0 THEN Reply(400, "token required")
                  ELSE IF ~IsDefined(entry) THEN Reply(200, "expired")
                  ELSE IF Val(entry).used = 1 THEN Reply(200, "granted")
                  ELSE IF Val(entry).used = 2 THEN Reply(200, "denied")
                  ELSE Reply(200, "pending")

\* ------------------------------------------------------------ cleanup tasks
\* A cleanup task answers no request: res records which task ran and how many
\* rows it removed (result.changes, expiredRows.length).
Swept(op, removed) ==
    Response(op, 0, "", Undefined, Undefined, Undefined, removed, FALSE, "")

\* A sweep that also removes the rows that run out before the next sweep.
SweepTokensAhead(tokens, time) ==
    Remove(tokens, {t \in DOMAIN tokens :
                      tokens[t].expires_at <= time + CLEANUP_TOKEN_INTERVAL_MS})

\* DELETE FROM short_tokens WHERE expires_at <= ?
SweepTokens(tokens, time) ==
    Remove(tokens, {t \in DOMAIN tokens : tokens[t].expires_at <= time})

\* SELECT token FROM enrollments WHERE expires_at <= ?
ExpiredEnrollments(enr, time) == {c \in DOMAIN enr : enr[c].expires_at <= time}

\* DELETE FROM enrollments WHERE expires_at <= ?
SweepEnrollments(enr, time) == Remove(enr, ExpiredEnrollments(enr, time))

\* for each expired token t: DELETE FROM identity_map WHERE token = t
SweepIdentities(map, enr, time) ==
    Remove(map, {s \in DOMAIN map : map[s] \in ExpiredEnrollments(enr, time)})

CleanupExpiredTokens ==
    /\ short_tokens' = SweepTokens(short_tokens, now)
    /\ res' = Swept("cleanupExpiredTokens",
                    Cardinality(DOMAIN short_tokens) - Cardinality(DOMAIN short_tokens'))
    /\ UNCHANGED <<enrollments, identity_map, rate_limits, now, issued, grants, handlers,
                   controller>>

CleanupEnrollmentTokens ==
    /\ enrollments' = SweepEnrollments(enrollments, now)
    /\ identity_map' = SweepIdentities(identity_map, enrollments, now)
    /\ res' = Swept("cleanupEnrollmentTokens",
                    Cardinality(ExpiredEnrollments(enrollments, now)))
    /\ UNCHANGED <<short_tokens, rate_limits, now, issued, grants, handlers, controller>>

\* -------------------------------------------------------------------- clock
\* The clock advances by one cleanup interval, up to the time end.
TickUpTo(end) ==
    /\ now < end
    /\ now' = now + CLEANUP_TOKEN_INTERVAL_MS
    /\ res' = NoResponse
    /\ UNCHANGED <<enrollments, identity_map, short_tokens, rate_limits, issued, grants,
                   handlers, controller>>

Tick == TickUpTo(EndMs)

\* --------------------------------------------------------------------- Init
\* The database as seeded by database.js at start-up: Alice may enter LAB_968
\* and her enrollment runs out two clock steps after start-up; Eve may enter
\* every door and her enrollment has already run out.
Seeded ==
    /\ now = StartMs
    /\ enrollments = (ALICE :> [permissions |-> LAB_968, created_at |-> 0,
                               expires_at |-> StartMs + 2 * CLEANUP_TOKEN_INTERVAL_MS]
                      @@ EVE :> [permissions |-> ALL, created_at |-> 0, expires_at |-> 0])
    /\ identity_map = (ALICE_ID :> ALICE @@ EVE_ID :> EVE)
    /\ short_tokens = EmptyTable
    /\ rate_limits = EmptyTable
    /\ issued = 0
    /\ grants = [t \in TokenIds |-> 0]
    /\ res = NoResponse
    /\ handlers = [h \in Handlers |-> IdleHandler]

Init ==
    /\ Seeded
    /\ controller = Boot("push")

\* Every /validate request over the input sets.
DoValidate ==
    \E token \in {0} \cup TokenIds, doorId \in {Undefined} \cup DoorIds,
       rssi \in RssiInputs, distanceCm \in DistanceInputs :
        Validate(token, doorId, rssi, distanceCm)
\* The /validate requests of the life-cycle specification: one request for
\* each of door not covered, weak signal, and grant.
DoValidateSome ==
    \E token \in TokenIds, doorId \in {LAB_968, LAB_969},
       rssi \in {Some(RSSI_THRESHOLD - 1), Some(RSSI_THRESHOLD)} :
        Validate(token, doorId, rssi, Some(DISTANCE_THRESHOLD))
DoRequestToken == \E cred \in {""} \cup Credentials : RequestToken(cred)
DoEnroll ==
    \E adminOk \in BOOLEAN, cred \in {""} \cup Credentials, studentId \in StudentIds,
       permissions \in PermissionInputs, expiresAt \in {Undefined} :
        Enroll(adminOk, cred, studentId, permissions, expiresAt)
\* An administrator enrolls Alice's credential string (again).
DoEnrollAlice ==
    \E studentId \in StudentIds, permissions \in PermissionInputs :
        Enroll(TRUE, ALICE, studentId, permissions, Undefined)
DoRevoke == \E adminOk \in BOOLEAN, studentId \in {""} \cup StudentIds : Revoke(adminOk, studentId)
DoCheckStatus == \E token \in {0} \cup TokenIds : CheckStatus(token)

\* The token life cycle from the seeded database: issuance, validation,
\* status polls, revocation, the two cleanup tasks and the clock.
Next ==
    \/ DoValidateSome
    \/ DoRequestToken
    \/ DoRevoke
    \/ DoCheckStatus
    \/ CleanupExpiredTokens
    \/ CleanupEnrollmentTokens
    \/ Tick

Spec == Init /\ [][Next]_vars

\* ------------------------------------------------- the validation decision
\* /validate as a function of the rows it reads and of the request: Init
\* draws the short_tokens row of token 1 (issued to Alice; Pending, Granted or
\* Denied; expiring now or one TTL from now) and Alice's enrollments row
\* (permissions; expired but not yet purged, or not expired), and the steps
\* are every /validate request, status polls, revocations and enrollments
\* of Alice's credential string.
LAB_969_968 == LAB_969 \o <<",">> \o LAB_968
PermissionStrings == {ALL, LAB_968, LAB_969_968}
ValidateNow == StartMs + SHORT_TOKEN_TTL_MS

InitValidate ==
    /\ now = ValidateNow
    /\ \E perms \in PermissionStrings, credExpiry \in {ValidateNow, ValidateNow + DEFAULT_ENROLL_MS} :
          enrollments = (ALICE :> [permissions |-> perms, created_at |-> 0, expires_at |-> credExpiry])
    /\ identity_map = (ALICE_ID :> ALICE)
    /\ \E tokenExpiry \in {ValidateNow, ValidateNow + SHORT_TOKEN_TTL_MS}, used \in 0..2 :
          /\ short_tokens = (1 :> [enrollment_token |-> ALICE, expires_at |-> tokenExpiry,
                                   used |-> used])
          /\ rate_limits = (ALICE :> [requests |-> <<tokenExpiry - SHORT_TOKEN_TTL_MS>>,
                                      suspended_until |-> 0])
          /\ grants = [t \in TokenIds |-> IF t = 1 /\ used = 1 THEN 1 ELSE 0]
    /\ issued = 1
    /\ res = NoResponse
    /\ handlers = [h \in Handlers |-> IdleHandler]
    /\ controller = Boot("push")

NextValidate ==
    \/ DoValidate
    \/ DoCheckStatus
    \/ DoRevoke
    \/ DoEnrollAlice

ValidateSpec == InitValidate /\ [][NextValidate]_vars

\* ------------------------------------------------- concurrent /validate
\* The handler of /validate awaits the database three times (lines 226, 239
\* and 243-277): between two awaits other handlers, the cleanup task and the
\* clock may run.  Each step below is a database statement with the code
\* that follows it up to the next statement.

\* Lines 220-236: the request arrives, the short_tokens row is read and the
\* token checks are made.
VReadEntry(h, token, doorId, rssi, distanceCm) ==
    LET entry == Get(short_tokens, token)
        verdict == EntryVerdict(entry, now)
        request == [IdleHandler EXCEPT !.token = token, !.doorId = doorId,
                                       !.rssi = rssi, !.distanceCm = distanceCm]
    IN  /\ handlers[h].pc = "idle"
        /\ UNCHANGED <<enrollments, identity_map, short_tokens, rate_limits, now,
                       issued, grants, controller>>
        /\ IF verdict = "expired"
           THEN /\ handlers' = [handlers EXCEPT ![h] = [request EXCEPT !.pc = "delete"]]
                /\ res' = NoResponse
           ELSE IF verdict # "continue"
           THEN /\ res' = Response("validate", token, "", doorId, rssi, distanceCm,
                                   403, FALSE, verdict)
                /\ UNCHANGED handlers
           ELSE /\ handlers' = [handlers EXCEPT ![h] =
                                  [request EXCEPT !.pc = "readUser",
                                                  !.owner = Val(entry).enrollment_token]]
                /\ res' = NoResponse

\* Lines 232-233: the expired row is deleted and "expired" is sent.
VDelete(h) ==
    LET my == handlers[h]
    IN  /\ my.pc = "delete"
        /\ short_tokens' = Remove(short_tokens, {my.token})
        /\ res' = Response("validate", my.token, "", my.doorId, my.rssi, my.distanceCm,
                           403, FALSE, "expired")
        /\ handlers' = [handlers EXCEPT ![h] = IdleHandler]
        /\ UNCHANGED <<enrollments, identity_map, rate_limits, now, issued, grants,
                       controller>>

\* Lines 239-277 up to the UPDATE: the enrollments row is read and the
\* decision is made.
VReadUser(h) ==
    LET my == handlers[h]
        d == Decision(Get(enrollments, my.owner), my.doorId, my.rssi, my.distanceCm)
    IN  /\ my.pc = "readUser"
        /\ handlers' = [handlers EXCEPT ![h] =
                          [my EXCEPT !.pc = "write", !.used = d.used, !.reason = d.reason]]
        /\ res' = NoResponse
        /\ UNCHANGED <<enrollments, identity_map, short_tokens, rate_limits, now,
                       issued, grants, controller>>

\* The UPDATE of lines 243, 253, 263, 271 or 277 and the response after it.
VWrite(h) ==
    LET my == handlers[h]
    IN  /\ my.pc = "write"
        /\ short_tokens' = SetUsed(short_tokens, my.token, my.used)
        /\ res' = Response("validate", my.token, "", my.doorId, my.rssi, my.distanceCm,
                           IF my.used = 1 THEN 200 ELSE 403, my.used = 1, my.reason)
        /\ grants' = IF my.used = 1 THEN [grants EXCEPT ![my.token] = @ + 1] ELSE grants
        /\ handlers' = [handlers EXCEPT ![h] = IdleHandler]
        /\ UNCHANGED <<enrollments, identity_map, rate_limits, now, issued, controller>>

\* Requests from a door controller of LAB_968, with a weak or a sufficient
\* signal and a distance within the threshold.
DoVReadEntry ==
    \E h \in Handlers, token \in TokenIds,
       rssi \in {Some(RSSI_THRESHOLD - 1), Some(RSSI_THRESHOLD)} :
        VReadEntry(h, token, LAB_968, rssi, Some(DISTANCE_THRESHOLD))
DoVDelete == \E h \in Handlers : VDelete(h)
DoVReadUser == \E h \in Handlers : VReadUser(h)
DoVWrite == \E h \in Handlers : VWrite(h)
DoRequestTokenAlice == RequestToken(ALICE)
DoRevokeAlice == Revoke(TRUE, ALICE_ID)

NextConcurrent ==
    \/ DoVReadEntry
    \/ DoVDelete
    \/ DoVReadUser
    \/ DoVWrite
    \/ DoRequestTokenAlice
    \/ DoRevokeAlice
    \/ CleanupExpiredTokens
    \/ Tick

ConcurrentSpec == Init /\ [][NextConcurrent]_vars

\* ---------------------------------------------------------- door controller
\* Two firmwares drive the same lock: "push" (src/firmware/main.ino) is handed
\* the token by an HTTP POST /unlock, "ble" (src/unnamed/part_000) picks it up
\* as the name of a device found by a BLE scan.  Both read the LiDAR, relay the
\* token and the readings to POST /validate and act on the answer.
\* controller.state is the firmware's position: "Idle" (loop() waiting for a
\* token), "ReadingSensor", "AwaitingDecision" (in http.POST), "ActuatingGrant"
\* (in performUnlock), "ActuatingDeny" (in performDeny), "ShowStatus" (the ble
\* firmware's showStatus + delay) and "Cooldown" (the ble loop's delay(2000)).
Variants == {"push", "ble"}
TokenLengths == {0, TOKEN_LENGTH - 1, TOKEN_LENGTH}

\* The LiDAR frame: two sync bytes 0x59, distance low and high byte, strength
\* low and high, temperature low and high, checksum.
SYNC == 89
FRAME_LENGTH == 9
\* A distance is accepted if 0 < dist < 1200.
MAX_DISTANCE == 1200

\* The low byte of the sum of the bytes s[from..to].
RECURSIVE LowSum(_, _, _)
LowSum(s, from, to) ==
    IF from > to THEN 0 ELSE (s[from] + LowSum(s, from + 1, to)) % 256

\* The frames the sensor sends for a distance, with the right checksum or with
\* a corrupted one.
Frame(dist, corrupted) ==
    LET head == <<SYNC, SYNC, dist % 256, dist \div 256, 0, 0, 0, 0>>
        sum == LowSum(head, 1, 8)
    IN  Append(head, IF corrupted THEN (sum + 1) % 256 ELSE sum)
FrameDistances == {DISTANCE_THRESHOLD, MAX_DISTANCE}
Frames == {Frame(dist, corrupted) : dist \in FrameDistances, corrupted \in BOOLEAN}

\* The bytes that arrive on Serial2 within the time budget of one read: up
\* to MaxFrames frames.
RECURSIVE StreamsOf(_)
StreamsOf(n) ==
    IF n = 0 THEN {<<>>}
    ELSE LET shorter == StreamsOf(n - 1)
         IN  shorter \cup {s \o f : s \in shorter, f \in Frames}
\* Bytes that hold no frame: fewer than 9 bytes, and a run of non-sync bytes.
NoFrames == {<<SYNC>>, [i \in 1..(FRAME_LENGTH + 1) |-> 0]}
Streams == StreamsOf(MaxFrames) \cup NoFrames

\* getRobustLidarDistance over the bytes that arrive within its budget, after
\* the flush and the settle delay.  Each turn of the loop waits for 9 bytes to
\* be available (for the rest of the budget if they never are), reads one
\* byte, and after two sync bytes reads the other 7: the ble firmware accepts
\* the distance if the checksum matches and 0 < dist < 1200, the push
\* firmware if 0 < dist < 1200.
\* A decoder that reports distance 0 when its budget runs out.
RECURSIVE GetRobustLidarDistanceNoSentinel(_, _)
GetRobustLidarDistanceNoSentinel(variant, s) ==
    IF Len(s) < FRAME_LENGTH THEN 0
    ELSE IF s[1] # SYNC \/ s[2] # SYNC
           THEN GetRobustLidarDistanceNoSentinel(variant, Tail(s))
    ELSE LET dist == s[3] + s[4] * 256
             matches == LowSum(s, 1, 8) = s[9]
         IN  IF (variant = "ble" => matches) /\ dist > 0 /\ dist < MAX_DISTANCE
             THEN dist
             ELSE GetRobustLidarDistanceNoSentinel(
                      variant, SubSeq(s, FRAME_LENGTH + 1, Len(s)))

RECURSIVE GetRobustLidarDistance(_, _)
GetRobustLidarDistance(variant, s) ==
    IF Len(s) < FRAME_LENGTH THEN LIDAR_TIMEOUT
    ELSE IF s[1] # SYNC \/ s[2] # SYNC THEN GetRobustLidarDistance(variant, Tail(s))
    ELSE LET dist == s[3] + s[4] * 256
             checksum == s[9]
             matches == LowSum(s, 1, 8) = checksum
         IN  IF (variant = "ble" => matches) /\ dist > 0 /\ dist < MAX_DISTANCE
             THEN dist
             ELSE GetRobustLidarDistance(variant, SubSeq(s, FRAME_LENGTH + 1, Len(s)))
RssiReadings == {RSSI_THRESHOLD - 1, RSSI_THRESHOLD}
\* What http.POST returns: a negative HTTPClient error or the HTTP status.
HttpCodes == {-1, 200, 403, 500}
Reasons == {"rssi_too_weak", "invalid_token"}
Bodies ==
    {Body(Some(TRUE), Undefined), NoBody}
        \cup {Body(Some(FALSE), Some(reason)) : reason \in Reasons}

\* A firmware that reads a missing "granted" member as true.
ParseGrantedDefaultsTrue(body) == ~IsDefined(body.granted) \/ Val(body.granted)

\* bool granted = respDoc["granted"]: false when the member is missing.
ParseGranted(body) == IsDefined(body.granted) /\ Val(body.granted)

\* respDoc["reason"] converted to a String: a missing member reads "null".
ParseReason(body) == IF IsDefined(body.reason) THEN Val(body.reason) ELSE "null"

\* A performUnlock that returns without driving the servo back.
DwellEndLeavesOpen(c) == c

\* The end of performUnlock's dwell: myservo.write(0).
DwellEnd(c) == [c EXCEPT !.servo = LOCKED]

\* Where the firmware goes when an attempt is over: handleUnlockRequest returns
\* to loop(); processAccessRequest returns into the loop's cooldown.
AfterAttempt(variant) == IF variant = "push" THEN "Idle" ELSE "Cooldown"

\* A handler that is entered again while an attempt is outstanding.
HandleUnlockRequestReentrant(hasBody, tokenLength) ==
    /\ controller.variant = "push"
    /\ IF ~hasBody \/ tokenLength # TOKEN_LENGTH
         THEN controller' = controller
         ELSE controller' = [controller EXCEPT !.state = "ReadingSensor",
                                               !.tokenLength = tokenLength,
                                               !.httpCode = 0,
                                               !.body = NoBody,
                                               !.granted = FALSE,
                                               !.reason = "server_error"]
    /\ UNCHANGED service

\* A handler that does not check the length of the token.
HandleUnlockRequestAnyLength(hasBody, tokenLength) ==
    /\ controller.variant = "push"
    /\ controller.state = "Idle"
    /\ IF ~hasBody
         THEN controller' = controller
         ELSE controller' = [controller EXCEPT !.state = "ReadingSensor",
                                               !.tokenLength = tokenLength,
                                               !.httpCode = 0,
                                               !.body = NoBody,
                                               !.granted = FALSE,
                                               !.reason = "server_error"]
    /\ UNCHANGED service

\* main.ino, POST /unlock.  A request without a body or with a token that is
\* not 18 characters long is answered 400 and nothing else happens.
HandleUnlockRequest(hasBody, tokenLength) ==
    /\ controller.variant = "push"
    /\ controller.state = "Idle"
    /\ IF ~hasBody \/ tokenLength # TOKEN_LENGTH
         THEN controller' = controller
         ELSE controller' = [controller EXCEPT !.state = "ReadingSensor",
                                               !.tokenLength = tokenLength,
                                               !.httpCode = 0,
                                               !.body = NoBody,
                                               !.granted = FALSE,
                                               !.reason = "server_error"]
    /\ UNCHANGED service

\* part_000, loop() while isScanning: a one-second scan; the first device whose
\* name is 18 characters long is taken as the token, with its RSSI.
LoopScan(nameLengths, foundRSSI) ==
    /\ controller.variant = "ble"
    /\ controller.state = "Idle"
    /\ IF TOKEN_LENGTH \in nameLengths
         THEN controller' = [controller EXCEPT !.state = "ReadingSensor",
                                               !.tokenLength = TOKEN_LENGTH,
                                               !.rssi = foundRSSI,
                                               !.httpCode = 0,
                                               !.body = NoBody,
                                               !.granted = FALSE,
                                               !.reason = ""]
         ELSE controller' = controller
    /\ UNCHANGED service

\* getRobustLidarDistance() returns; main.ino then samples WiFi.RSSI().
ReadSensor(stream, rssi) ==
    /\ controller.state = "ReadingSensor"
    /\ controller' = [controller EXCEPT
                        !.state = "AwaitingDecision",
                        !.stream = stream,
                        !.distance = GetRobustLidarDistance(controller.variant, stream),
                        !.rssi = IF controller.variant = "push" THEN rssi ELSE @]
    /\ UNCHANGED service

\* The controller after the relay to POST /validate returned (http.POST has a
\* timeout) with httpCode and body, or was not attempted for lack of Wi-Fi.
Relayed(c, wifi, httpCode, body) ==
    IF c.variant = "ble" /\ ~wifi
    THEN [c EXCEPT !.stream = <<>>, !.state = "ShowStatus"]
    ELSE IF httpCode > 0
    THEN LET granted == ParseGranted(body)
         IN  [c EXCEPT !.stream = <<>>,
                       !.httpCode = httpCode,
                       !.body = body,
                       !.granted = granted,
                       !.reason = IF c.variant = "push" /\ granted
                                    THEN @ ELSE ParseReason(body),
                       !.state = IF granted THEN "ActuatingGrant" ELSE "ActuatingDeny"]
    ELSE [c EXCEPT !.stream = <<>>,
                   !.httpCode = httpCode,
                   !.body = body,
                   !.state = IF c.variant = "push" THEN "ActuatingDeny" ELSE "ShowStatus"]

\* The relay with an outcome chosen by the network and the service.  The
\* bytes the read consumed are kept in controller.stream up to here, next to
\* the distance decoded from them.
Relay(wifi, httpCode, body) ==
    /\ controller.state = "AwaitingDecision"
    /\ wifi \/ httpCode <= 0
    /\ httpCode <= 0 => body = NoBody
    /\ controller' = Relayed(controller, wifi, httpCode, body)
    /\ UNCHANGED service

\* performUnlock up to myservo.write(90).
UnlockServo ==
    /\ controller.state = "ActuatingGrant"
    /\ controller.servo = LOCKED
    /\ controller' = [controller EXCEPT !.servo = UNLOCKED]
    /\ UNCHANGED service

\* performUnlock after delay(5000): the relock, and the return to the caller.
Relock ==
    /\ controller.state = "ActuatingGrant"
    /\ controller.servo = UNLOCKED
    /\ controller' = [DwellEnd(controller) EXCEPT
                        !.state = AfterAttempt(controller.variant)]
    /\ UNCHANGED service

\* performDeny: the message, the tone and delay(2000).
DenyDone ==
    /\ controller.state = "ActuatingDeny"
    /\ controller' = [controller EXCEPT !.state = AfterAttempt(controller.variant)]
    /\ UNCHANGED service

\* part_000: showStatus("Server Error") or showStatus("WiFi Lost") and its delay.
StatusDone ==
    /\ controller.state = "ShowStatus"
    /\ controller' = [controller EXCEPT !.state = "Cooldown"]
    /\ UNCHANGED service

\* part_000: delay(2000); isScanning = true.
CooldownDone ==
    /\ controller.state = "Cooldown"
    /\ controller' = [controller EXCEPT !.state = "Idle"]
    /\ UNCHANGED service

DoHandleUnlockRequest ==
    \E hasBody \in BOOLEAN, tokenLength \in TokenLengths :
        HandleUnlockRequest(hasBody, tokenLength)
DoLoopScan ==
    \E nameLengths \in SUBSET TokenLengths, foundRSSI \in RssiReadings :
        LoopScan(nameLengths, foundRSSI)
DoReadSensor ==
    \E stream \in Streams, rssi \in RssiReadings : ReadSensor(stream, rssi)
DoRelay ==
    \E wifi \in BOOLEAN, httpCode \in HttpCodes, body \in Bodies :
        Relay(wifi, httpCode, body)

\* The steps the firmware takes by itself once an attempt has begun.
ControllerProgress ==
    \/ DoReadSensor
    \/ DoRelay
    \/ UnlockServo
    \/ Relock
    \/ DenyDone
    \/ StatusDone
    \/ CooldownDone

NextController ==
    \/ DoHandleUnlockRequest
    \/ DoLoopScan
    \/ DoReadSensor
    \/ DoRelay
    \/ UnlockServo
    \/ Relock
    \/ DenyDone
    \/ StatusDone
    \/ CooldownDone

\* Either firmware after setup(), next to the seeded service.
InitController ==
    /\ Seeded
    /\ controller \in {Boot(variant) : variant \in Variants}

\* loop() runs for ever and every blocking call in an attempt is bounded (the
\* LiDAR read by its millis() budget, http.POST by its timeout, the dwells by
\* delay), so a step the firmware can take by itself is eventually taken.
ControllerSpec == InitController /\ [][NextController]_vars /\ WF_vars(ControllerProgress)

\* ------------------------------------------------- claims: door controller
\* C5: in both firmwares the servo is unlocked only during Actuating(Grant);
\* whenever the controller is Idle the servo is locked; from every position of
\* an attempt the controller eventually returns to Idle; an unlock is always
\* followed by a relock; and a request is taken up only from Idle (locked).
C5_UnlockedOnlyWhileActuatingGrant ==
    /\ [](controller.servo = UNLOCKED => controller.state = "ActuatingGrant")
    /\ [](controller.state = "Idle" => controller.servo = LOCKED)
    /\ (controller.state # "Idle" ~> controller.state = "Idle")
    /\ (controller.servo = UNLOCKED ~> controller.servo = LOCKED)
    /\ [][(controller.state # "ReadingSensor" /\ controller'.state = "ReadingSensor")
            => (controller.state = "Idle" /\ controller.servo = LOCKED)]_vars

\* The ble firmware is back in Idle, locked, after an attempt that was granted.
C5_Witness ==
    /\ controller.variant = "ble"
    /\ controller.state = "Idle"
    /\ controller.granted
    /\ controller.servo = LOCKED

\* C6: the controller is in Actuating(Grant), or its servo unlocked, only if the
\* relay of the current attempt got a response (httpCode > 0) whose body carried
\* granted = true; after any other response it is never unlocked.
C6_UnlockOnlyOnGrantedTrue ==
    (controller.state = "ActuatingGrant" \/ controller.servo = UNLOCKED)
        => (controller.httpCode > 0 /\ controller.body.granted = Some(TRUE))

\* The push firmware denies after a response with an error status whose body
\* has no "granted" member.
C6_Witness ==
    /\ controller.variant = "push"
    /\ controller.state = "ActuatingDeny"
    /\ controller.httpCode = 500
    /\ controller.body = NoBody
    /\ controller.servo = LOCKED

\* ------------------------------------------------------------------ claims
\* The short_tokens row of token t is Pending and unexpired.
Pending(t) ==
    /\ t \in DOMAIN short_tokens
    /\ short_tokens[t].used = 0
    /\ short_tokens[t].expires_at > now

\* The credential token t was issued under.
Owner(t) == short_tokens[t].enrollment_token

\* This step is a /validate request that carries a token and a door
\* identifier; res' holds its fields and its response.
ValidateStep ==
    /\ res'.op = "validate"
    /\ res'.token # 0
    /\ IsDefined(res'.doorId)
    /\ Validate(res'.token, res'.doorId, res'.rssi, res'.distanceCm)

\* C1: in a sequential history, no token is granted twice: the number of
\* {granted: true} responses sent for a token never exceeds one, and a
\* /validate of a token whose row is Granted and unexpired is denied with
\* "already_used" and changes nothing.
C1_AtMostOnceGrant ==
    /\ [](\A t \in TokenIds : grants[t] <= 1)
    /\ [][(/\ ValidateStep
           /\ res'.token \in DOMAIN short_tokens
           /\ short_tokens[res'.token].used = 1
           /\ short_tokens[res'.token].expires_at > now)
          => (/\ ~res'.granted
              /\ res'.text = "already_used"
              /\ short_tokens' = short_tokens)]_vars

\* A token has been granted and a later /validate of it was denied "already_used".
C1_Witness ==
    /\ res.op = "validate"
    /\ res.text = "already_used"
    /\ res.token \in TokenIds
    /\ grants[res.token] = 1

\* C2: of the concurrent /validate requests on one token, each a read of the
\* token row, a read of the credential and a write of the state with other
\* handlers running in between, at most one is answered {granted: true}.
C2_AtMostOneConcurrentGrant == \A t \in TokenIds : grants[t] < 2

\* C3: a short token's state changes only from Pending: once the stored state
\* is Granted (used = 1) or Denied (used = 2), no step writes another value.
C3_TerminalStateNeverRewritten ==
    [][\A t \in DOMAIN short_tokens :
         (short_tokens[t].used # 0 /\ t \in DOMAIN short_tokens')
         => short_tokens'[t].used = short_tokens[t].used]_vars

\* C7: /validate never grants a token whose owning credential's expiry is at
\* or before the time of validation.
C7_ExpiredCredentialGrantsNothing ==
    (res.op = "validate" /\ res.granted)
    => (/\ Owner(res.token) \in DOMAIN enrollments
        /\ enrollments[Owner(res.token)].expires_at > now)

\* The readings confirm proximity: both are supplied, the RSSI is at or above
\* the floor and the distance at or below the ceiling.
ProximityConfirmed(rssi, distanceCm) ==
    /\ IsDefined(rssi) /\ Val(rssi) >= RSSI_THRESHOLD
    /\ IsDefined(distanceCm) /\ Val(distanceCm) <= DISTANCE_THRESHOLD

\* C4: every /validate that commits Granted found the owning credential
\* present and unexpired, the token Pending and unexpired, and proximity
\* confirmed by both readings of the request.
C4_GrantNeedsAllThree ==
    [][(ValidateStep /\ res'.granted)
       => (/\ Pending(res'.token)
           /\ Owner(res'.token) \in DOMAIN enrollments
           /\ enrollments[Owner(res'.token)].expires_at > now
           /\ ProximityConfirmed(res'.rssi, res'.distanceCm))]_vars

IsMember(perms, doorId) ==
    \E i \in 1..Len(perms) :
        LET j == i + Len(doorId) - 1
        IN  /\ j <= Len(perms)
            /\ SubSeq(perms, i, j) = doorId
            /\ (i = 1 \/ perms[i - 1] = ",")
            /\ (j = Len(perms) \/ perms[j + 1] = ",")

\* C9: for a Pending, unexpired token whose credential exists, a permission
\* set that is not "ALL" and does not hold the door identifier as a member
\* is denied "insufficient_permissions" and commits Denied, whatever the
\* readings.
C9_NonMemberDoorDenied ==
    [][(/\ ValidateStep
        /\ Pending(res'.token)
        /\ Owner(res'.token) \in DOMAIN enrollments
        /\ enrollments[Owner(res'.token)].permissions # ALL
        /\ ~IsMember(enrollments[Owner(res'.token)].permissions, res'.doorId))
       => (/\ ~res'.granted
           /\ res'.text = "insufficient_permissions"
           /\ short_tokens' = [short_tokens EXCEPT ![res'.token].used = 2])]_vars

\* C10: the checks are evaluated in one order and the first failing one is
\* reported: the token checks come first, then the credential, then the
\* permission test (which wins over both sensor failures), then the signal
\* (reported whether or not the distance is also too far), then the distance.
C10_FirstFailingCheck ==
    [][ValidateStep =>
         LET t == res'.token
             weak == IsDefined(res'.rssi) /\ Val(res'.rssi) < RSSI_THRESHOLD
             far == IsDefined(res'.distanceCm) /\ Val(res'.distanceCm) > DISTANCE_THRESHOLD
             covered == CanAccess(enrollments[Owner(t)].permissions, res'.doorId)
         IN  /\ t \notin DOMAIN short_tokens => res'.text = "unknown_or_expired"
             /\ (t \in DOMAIN short_tokens /\ short_tokens[t].expires_at <= now)
                => res'.text = "expired"
             /\ (t \in DOMAIN short_tokens /\ short_tokens[t].expires_at > now)
                => (/\ short_tokens[t].used = 1 => res'.text = "already_used"
                    /\ short_tokens[t].used = 2 => res'.text = "already_denied")
             /\ (Pending(t) /\ Owner(t) \notin DOMAIN enrollments)
                => res'.text = "access_revoked"
             /\ (Pending(t) /\ Owner(t) \in DOMAIN enrollments)
                => (/\ ~covered => res'.text = "insufficient_permissions"
                    /\ (covered /\ weak) => res'.text = "rssi_too_weak"
                    /\ (covered /\ ~weak /\ far) => res'.text = "distance_too_far"
                    /\ (covered /\ ~weak /\ ~far) => res'.granted)]_vars

\* A /validate whose door is covered and whose readings fail both sensor
\* checks was denied "rssi_too_weak".
C10_Witness ==
    /\ res.op = "validate"
    /\ res.text = "rssi_too_weak"
    /\ IsDefined(res.distanceCm)
    /\ Val(res.distanceCm) > DISTANCE_THRESHOLD
    /\ short_tokens[res.token].used = 2

C12_PollNeverPendingAfterExpiry ==
    (res.op = "check-status" /\ res.text = "pending")
    => (/\ res.token \in DOMAIN short_tokens
        /\ short_tokens[res.token].expires_at > now)

\* C13: a /request-token for a credential whose expires_at <= now is denied
\* "enrollment_expired", inserts no short_tokens row and leaves rate_limits
\* as it is.
C13_ExpiredCredentialIssuesNothing ==
    [][(/\ res'.op = "request-token"
        /\ res'.cred \in DOMAIN enrollments
        /\ enrollments[res'.cred].expires_at <= now)
       => (/\ res'.text = "enrollment_expired"
           /\ short_tokens' = short_tokens
           /\ rate_limits' = rate_limits)]_vars

\* ------------------------------------------------------------ rate limiting
\* /request-token as a function of the rate_limits row it reads: Init draws
\* Alice's row as earlier requests can have left it (up to MAX_REQUESTS
\* timestamps of admitted requests, or a suspension), and the steps are
\* issuance requests, the token sweep and the clock.  The tokens of the
\* earlier requests have run out and been swept; the tokens issued from here on
\* are named 1, 2, ...
PastTimes ==
    {StartMs - WINDOW_MS, StartMs - WINDOW_MS + CLEANUP_TOKEN_INTERVAL_MS,
     StartMs - SHORT_TOKEN_TTL_MS}

\* The timestamp lists a row can hold: in the order of arrival, at most
\* MAX_REQUESTS of them, all within one window of the last.
RequestLists ==
    {l \in UNION {[1..n -> PastTimes] : n \in 1..MAX_REQUESTS} :
        /\ \A i \in 1..(Len(l) - 1) : l[i] <= l[i + 1]
        /\ l[1] > l[Len(l)] - WINDOW_MS}

RateRows ==
    {[requests |-> l, suspended_until |-> 0] : l \in RequestLists}
        \cup {[requests |-> <<>>, suspended_until |-> u] :
                 u \in {StartMs, StartMs + CLEANUP_TOKEN_INTERVAL_MS,
                        StartMs - SHORT_TOKEN_TTL_MS + WINDOW_MS}}

InitRate ==
    /\ now = StartMs
    /\ enrollments = (ALICE :> [permissions |-> LAB_968, created_at |-> 0,
                               expires_at |-> StartMs + DEFAULT_ENROLL_MS]
                      @@ EVE :> [permissions |-> ALL, created_at |-> 0, expires_at |-> 0])
    /\ identity_map = (ALICE_ID :> ALICE @@ EVE_ID :> EVE)
    /\ short_tokens = EmptyTable
    /\ rate_limits \in {EmptyTable} \cup {(ALICE :> row) : row \in RateRows}
    /\ issued = 0
    /\ grants = [t \in TokenIds |-> 0]
    /\ res = NoResponse
    /\ handlers = [h \in Handlers |-> IdleHandler]
    /\ controller = Boot("push")

NextRate ==
    \/ DoRequestToken
    \/ CleanupExpiredTokens
    \/ Tick

RateSpec == InitRate /\ [][NextRate]_vars

\* --------------------------------------------------- claims: rate limiting
\* The number of timestamps of the stored list that lie within the window
\* trailing the instant time.
InWindow(requests, time) ==
    Cardinality({i \in 1..Len(requests) : requests[i] > time - WINDOW_MS})

\* This step is a /request-token for an enrolled, unexpired credential.
RequestStep ==
    /\ res'.op = "request-token"
    /\ res'.cred \in DOMAIN enrollments
    /\ enrollments[res'.cred].expires_at >= now

\* C14: a /request-token that arrives, outside a suspension, when the
\* admitted requests within the trailing window number MAX_REQUESTS is denied
\* "rate_limited", issues no token, and leaves the credential's row with an
\* empty timestamp list and suspended_until = now + WINDOW_MS.
C14_FullWindowSuspends ==
    [][(/\ RequestStep
        /\ res'.cred \in DOMAIN rate_limits
        /\ rate_limits[res'.cred].suspended_until <= now
        /\ InWindow(rate_limits[res'.cred].requests, now) >= MAX_REQUESTS)
       => (/\ res'.code = 429
           /\ res'.text = "rate_limited"
           /\ res'.token = 0
           /\ short_tokens' = short_tokens
           /\ issued' = issued
           /\ rate_limits' = [rate_limits EXCEPT
                                ![res'.cred] = [requests |-> <<>>,
                                                suspended_until |-> now + WINDOW_MS]])]_vars

\* Alice's request was admitted and a token issued; her next request found
\* the window full and began a suspension of one window.
C14_Witness ==
    /\ res.op = "request-token"
    /\ res.cred = ALICE
    /\ res.text = "rate_limited"
    /\ issued >= 1
    /\ rate_limits[ALICE] = [requests |-> <<>>, suspended_until |-> now + WINDOW_MS]

\* C15: while now < suspended_until every /request-token for the credential is
\* denied, issues no token and leaves rate_limits as it is; a suspended row
\* holds no timestamps, so the first request at or after suspended_until is
\* admitted and leaves a list holding that request alone.
C15_SuspensionDeniesWithoutMutation ==
    /\ [](\A c \in DOMAIN rate_limits :
            rate_limits[c].suspended_until > 0 => rate_limits[c].requests = <<>>)
    /\ [][(RequestStep /\ res'.cred \in DOMAIN rate_limits)
          => LET row == rate_limits[res'.cred]
             IN  /\ now < row.suspended_until
                    => (/\ res'.code = 429
                        /\ res'.text = "rate_limited"
                        /\ res'.token = 0
                        /\ short_tokens' = short_tokens
                        /\ issued' = issued
                        /\ rate_limits' = rate_limits)
                 /\ (row.suspended_until > 0 /\ now >= row.suspended_until)
                    => (/\ res'.code = 200
                        /\ res'.token \in DOMAIN short_tokens'
                        /\ rate_limits'[res'.cred] =
                              [requests |-> <<now>>, suspended_until |-> 0])]_vars

\* A request made during a suspension that an earlier request began was denied.
C15_Witness ==
    /\ res.op = "request-token"
    /\ res.cred = ALICE
    /\ res.text = "rate_limited"
    /\ rate_limits[ALICE].suspended_until > now
    /\ rate_limits[ALICE].suspended_until < now + WINDOW_MS

\* ------------------------------------------------ concurrent /request-token
\* The handler of /request-token awaits four database calls (lines 150, 164,
\* 187 or 198, 206): between two awaits other handlers run.  A handler here
\* is a record of its position and locals: cred, the instant `now` it sampled
\* on entry, the row it is about to write and whether it admitted the request.
\* Requests handled with nothing in between (RequestToken) issue the first
\* MaxTokens tokens; interleaved handlers may issue MaxInterleaved more.
MaxInterleaved == 2

\* Up to `await dbGet(SELECT * FROM enrollments ...)` and the checks on it.
RReadUser(h, cred) ==
    LET Reply(code, text) ==
            Response("request-token", 0, cred, Undefined, Undefined, Undefined,
                     code, FALSE, text)
        user == Get(enrollments, cred)
    IN  /\ handlers[h] = IdleHandler
        /\ UNCHANGED <<enrollments, identity_map, short_tokens, rate_limits, now,
                       issued, grants, controller>>
        /\ IF cred = ""
           THEN /\ res' = Reply(400, "enrollmentToken required")
                /\ UNCHANGED handlers
           ELSE IF ~IsDefined(user)
           THEN /\ res' = Reply(403, "unknown enrollmentToken")
                /\ UNCHANGED handlers
           ELSE IF Val(user).expires_at < now
           THEN /\ res' = Reply(403, "enrollment_expired")
                /\ UNCHANGED handlers
           ELSE /\ handlers' = [handlers EXCEPT
                                  ![h] = [pc |-> "readRate", cred |-> cred, time |-> now,
                                          row |-> [requests |-> <<>>, suspended_until |-> 0],
                                          admitted |-> FALSE]]
                /\ res' = res

\* `await dbGet(SELECT * FROM rate_limits ...)` and the decision on the row.
RReadRate(h) ==
    LET self == handlers[h]
        rateData == RateData(self.cred)
        pruned == FilterWindow(rateData.requests, self.time)
    IN  /\ self.pc = "readRate"
        /\ UNCHANGED <<enrollments, identity_map, short_tokens, rate_limits, now,
                       issued, grants, controller>>
        /\ IF rateData.suspended_until > self.time
           THEN /\ res' = Response("request-token", 0, self.cred, Undefined, Undefined,
                                   Undefined, 429, FALSE, "rate_limited")
                /\ handlers' = [handlers EXCEPT ![h] = IdleHandler]
           ELSE IF Len(pruned) >= MAX_REQUESTS
           THEN /\ handlers' = [handlers EXCEPT
                                  ![h].pc = "writeRate",
                                  ![h].row = Suspension(pruned, self.time),
                                  ![h].admitted = FALSE]
                /\ res' = res
           ELSE /\ handlers' = [handlers EXCEPT
                                  ![h].pc = "writeRate",
                                  ![h].row = [requests |-> Append(pruned, self.time),
                                              suspended_until |-> 0],
                                  ![h].admitted = TRUE]
                /\ res' = res

\* `await dbRun(INSERT OR REPLACE INTO rate_limits ...)`.
RWriteRate(h) ==
    LET self == handlers[h]
    IN  /\ self.pc = "writeRate"
        /\ rate_limits' = Put(rate_limits, self.cred, self.row)
        /\ UNCHANGED <<enrollments, identity_map, short_tokens, now, issued, grants,
                       controller>>
        /\ IF self.admitted
           THEN /\ handlers' = [handlers EXCEPT ![h].pc = "insertToken"]
                /\ res' = res
           ELSE /\ handlers' = [handlers EXCEPT ![h] = IdleHandler]
                /\ res' = Response("request-token", 0, self.cred, Undefined, Undefined,
                                   Undefined, 429, FALSE, "rate_limited")

\* genRandomToken, `await dbRun(INSERT INTO short_tokens ...)`, the response.
RInsertToken(h) ==
    LET self == handlers[h]
        tokenStr == issued + 1
    IN  /\ self.pc = "insertToken"
        /\ issued < MaxTokens + MaxInterleaved
        /\ short_tokens' = Put(short_tokens, tokenStr,
                               [enrollment_token |-> self.cred,
                                expires_at |-> self.time + SHORT_TOKEN_TTL_MS,
                                used |-> 0])
        /\ issued' = issued + 1
        /\ handlers' = [handlers EXCEPT ![h] = IdleHandler]
        /\ res' = Response("request-token", tokenStr, self.cred, Undefined, Undefined,
                           Undefined, 200, FALSE, "")
        /\ UNCHANGED <<enrollments, identity_map, rate_limits, now, grants, controller>>

DoRReadUser == \E h \in Handlers, cred \in {"", ALICE, EVE} : RReadUser(h, cred)
DoRReadRate == \E h \in Handlers : RReadRate(h)
DoRWriteRate == \E h \in Handlers : RWriteRate(h)
DoRInsertToken == \E h \in Handlers : RInsertToken(h)

NextIssue ==
    \/ DoRequestTokenAlice
    \/ DoRReadUser
    \/ DoRReadRate
    \/ DoRWriteRate
    \/ DoRInsertToken
    \/ Tick

IssueSpec == Init /\ [][NextIssue]_vars

\* The tokens of credential c that were issued within the window trailing now.
IssuedInWindow(c) ==
    {t \in DOMAIN short_tokens :
        /\ short_tokens[t].enrollment_token = c
        /\ short_tokens[t].expires_at - SHORT_TOKEN_TTL_MS > now - WINDOW_MS}

\* C16: whatever the interleaving of concurrent /request-token handlers of
\* one credential, the tokens issued to it within one window never number
\* more than MAX_REQUESTS.
C16_ConcurrencyKeepsRateLimit ==
    \A c \in Credentials : Cardinality(IssuedInWindow(c)) <= MAX_REQUESTS

\* --------------------------------------------------------------- enrollment
\* The administrator's operations on the seeded database: enrollments and
\* revocations, with the enrollment sweep and the clock.
NextEnroll ==
    \/ DoEnroll
    \/ DoRevoke
    \/ CleanupEnrollmentTokens
    \/ Tick

EnrollSpec == Init /\ [][NextEnroll]_vars

\* C17: in every state a reader can observe, a credential has an enrollments
\* row if and only if an identity_map row points to it.
C17_NoPartialEnrollment ==
    DOMAIN enrollments = {identity_map[s] : s \in DOMAIN identity_map}

\* C18: an /enroll that fails with the duplicate error (409) leaves the store
\* exactly as it was: enrollments, identity_map, short_tokens and rate_limits.
C18_DuplicateEnrollChangesNothing ==
    [][(res'.op = "enroll" /\ res'.code = 409)
       => (/\ enrollments' = enrollments
           /\ identity_map' = identity_map
           /\ short_tokens' = short_tokens
           /\ rate_limits' = rate_limits)]_vars

\* ------------------------------------------------------- claims: the sweeps
\* C19: both sweeps are idempotent and total: in every state sweeping twice
\* at the same instant gives what sweeping once gives, a sweep of tables
\* that hold nothing expired changes nothing, and a sweep step leaves tables
\* that the same sweep would not change (whether the rows it would have
\* removed were purged by /validate, deleted by a revocation or swept before).
C19_SweepsIdempotent ==
    /\ [](LET st == SweepTokens(short_tokens, now)
              en == SweepEnrollments(enrollments, now)
              im == SweepIdentities(identity_map, enrollments, now)
          IN  /\ SweepTokens(st, now) = st
              /\ SweepEnrollments(en, now) = en
              /\ SweepIdentities(im, en, now) = im
              /\ (\A t \in DOMAIN short_tokens : short_tokens[t].expires_at > now)
                 => st = short_tokens
              /\ (\A c \in DOMAIN enrollments : enrollments[c].expires_at > now)
                 => (en = enrollments /\ im = identity_map))
    /\ [][/\ res'.op = "cleanupExpiredTokens"
             => (/\ \A t \in DOMAIN short_tokens' : short_tokens'[t].expires_at > now
                 /\ \A t \in DOMAIN short_tokens :
                      short_tokens[t].expires_at > now
                      => (t \in DOMAIN short_tokens' /\ short_tokens'[t] = short_tokens[t]))
          /\ res'.op = "cleanupEnrollmentTokens"
             => (/\ \A c \in DOMAIN enrollments' : enrollments'[c].expires_at > now
                 /\ \A c \in DOMAIN enrollments :
                      enrollments[c].expires_at > now
                      => (c \in DOMAIN enrollments' /\ enrollments'[c] = enrollments[c]))]_vars

\* The token sweep ran over a table whose only row had already been removed
\* (by an earlier sweep or by the purge of /validate) and removed nothing.
C19_Witness ==
    /\ res.op = "cleanupExpiredTokens"
    /\ res.code = 0
    /\ issued >= 1
    /\ short_tokens = EmptyTable
    /\ now >= StartMs + SHORT_TOKEN_TTL_MS

\* -------------------------------------------------- claims: frame decoder
\* The stream is made of whole 9-byte frames, at least one, and the checksum
\* byte of each differs from the low byte of the sum of its first 8 bytes.
AllCorrupted(s) ==
    /\ Len(s) > 0
    /\ Len(s) % FRAME_LENGTH = 0
    /\ \A k \in 0..((Len(s) \div FRAME_LENGTH) - 1) :
          s[FRAME_LENGTH * k + 9] # LowSum(s, FRAME_LENGTH * k + 1, FRAME_LENGTH * k + 8)

\* C20: in either firmware, a read of the sensor over a stream of frames that
\* all carry a wrong checksum yields the sentinel, never a distance.
C20_CorruptedFramesYieldSentinel ==
    AllCorrupted(controller.stream) => controller.distance = LIDAR_TIMEOUT

\* ------------------------------------------------- the frame decoder alone
\* The read of the sensor over arbitrary bytes: frames for the distances at
\* the edges of the accepted range, with a right or a wrong checksum, behind
\* bytes left over from an earlier frame.
DecoderDistances == {0, LIDAR_TIMEOUT, MAX_DISTANCE - 1, MAX_DISTANCE}
DecoderFrames ==
    {Frame(dist, corrupted) : dist \in DecoderDistances, corrupted \in BOOLEAN}
Garbage == {<<>>, <<0>>, <<SYNC>>, [i \in 1..FRAME_LENGTH |-> 0]}

RECURSIVE FrameStreamsOf(_)
FrameStreamsOf(n) ==
    IF n = 0 THEN {<<>>}
    ELSE LET shorter == FrameStreamsOf(n - 1)
         IN  shorter \cup {s \o f : s \in shorter, f \in DecoderFrames}
DecoderStreams == {g \o s : g \in Garbage, s \in FrameStreamsOf(MaxFrames)}

\* Whether getRobustLidarDistance returns from inside its loop (a frame was
\* accepted) rather than after it (the budget ran out).
RECURSIVE FrameAccepted(_, _)
FrameAccepted(variant, s) ==
    IF Len(s) < FRAME_LENGTH THEN FALSE
    ELSE IF s[1] # SYNC \/ s[2] # SYNC THEN FrameAccepted(variant, Tail(s))
    ELSE LET dist == s[3] + s[4] * 256
             checksum == s[9]
             matches == LowSum(s, 1, 8) = checksum
         IN  IF (variant = "ble" => matches) /\ dist > 0 /\ dist < MAX_DISTANCE
             THEN TRUE
             ELSE FrameAccepted(variant, SubSeq(s, FRAME_LENGTH + 1, Len(s)))

DoReadSensorAny ==
    \E stream \in DecoderStreams, rssi \in RssiReadings : ReadSensor(stream, rssi)

NextDecoder ==
    \/ DoHandleUnlockRequest
    \/ DoLoopScan
    \/ DoReadSensorAny
    \/ DoRelay
    \/ UnlockServo
    \/ Relock
    \/ DenyDone
    \/ StatusDone
    \/ CooldownDone

\* Either firmware, reading arbitrary bytes.
DecoderSpec == InitController /\ [][NextDecoder]_vars

\* The 9 bytes of s from position i are a frame the spec accepts with
\* distance d: two sync bytes, a matching checksum, 0 < d < 1200.
Qualifies(s, i, d) ==
    /\ i + FRAME_LENGTH - 1 <= Len(s)
    /\ s[i] = SYNC
    /\ s[i + 1] = SYNC
    /\ d = s[i + 2] + s[i + 3] * 256
    /\ s[i + 8] = LowSum(s, i, i + 7)
    /\ d > 0
    /\ d < MAX_DISTANCE

\* s is a run of whole frames, each behind its two sync bytes.
FrameAligned(s) ==
    /\ Len(s) % FRAME_LENGTH = 0
    /\ \A k \in 0..((Len(s) \div FRAME_LENGTH) - 1) :
          s[FRAME_LENGTH * k + 1] = SYNC /\ s[FRAME_LENGTH * k + 2] = SYNC

\* The frames of an aligned stream that qualify.
QualifyingFrames(s) ==
    {k \in 0..((Len(s) \div FRAME_LENGTH) - 1) :
        \E d \in 1..(MAX_DISTANCE - 1) : Qualifies(s, FRAME_LENGTH * k + 1, d)}

\* C21: a read of the sensor returns a distance only from a frame whose
\* checksum matches and whose value d satisfies 0 < d < 1200, otherwise the
\* sentinel; over a run of whole frames it returns the distance of the first
\* frame that qualifies (it keeps scanning past the frames that do not), and
\* the sentinel if none does.
C21_AcceptsOnlyQualifyingFrames ==
    controller.state = "AwaitingDecision" =>
        LET s == controller.stream
            q == QualifyingFrames(s)
        IN  /\ \/ \E i \in 1..Len(s) : Qualifies(s, i, controller.distance)
               \/ controller.distance = LIDAR_TIMEOUT
            /\ FrameAligned(s) =>
                 IF q = {} THEN controller.distance = LIDAR_TIMEOUT
                 ELSE \E k \in q :
                        /\ \A j \in q : k <= j
                        /\ Qualifies(s, FRAME_LENGTH * k + 1, controller.distance)

\* C22: the sentinel is distinguished from every measurement: a read of the
\* sensor that accepted a frame never returns the sentinel value.
C22_SentinelIsNoMeasurement ==
    (controller.state = "AwaitingDecision"
        /\ FrameAccepted(controller.variant, controller.stream))
        => controller.distance # LIDAR_TIMEOUT

\* C23: for every byte stream (none, fewer than 9 bytes, garbage, frames that
\* are all rejected) the read of the sensor ends; a read that accepted no
\* frame yields the sentinel; there is one read per attempt; and the attempt
\* goes on to the relay and back to Idle.
C23_DecoderTerminatesWithSentinel ==
    /\ (controller.state = "ReadingSensor" ~> controller.state = "AwaitingDecision")
    /\ []((controller.state = "AwaitingDecision"
            /\ ~FrameAccepted(controller.variant, controller.stream))
          => controller.distance = LIDAR_TIMEOUT)
    /\ [][controller.state = "ReadingSensor"
            => controller'.state \in {"ReadingSensor", "AwaitingDecision"}]_vars
    /\ [][(controller.state # "ReadingSensor" /\ controller'.state = "ReadingSensor")
            => controller.state = "Idle"]_vars
    /\ [][controller.state = "AwaitingDecision"
            => controller'.state \in {"AwaitingDecision", "ActuatingGrant",
                                      "ActuatingDeny", "ShowStatus"}]_vars
    /\ (controller.state = "AwaitingDecision" ~> controller.state = "Idle")

\* The ble firmware has read more than 9 bytes that hold no frame, and holds
\* the sentinel for the relay.
C23_Witness ==
    /\ controller.variant = "ble"
    /\ controller.state = "AwaitingDecision"
    /\ Len(controller.stream) > FRAME_LENGTH
    /\ controller.stream[1] # SYNC
    /\ ~FrameAccepted(controller.variant, controller.stream)
    /\ controller.distance = LIDAR_TIMEOUT

\* --------------------------------- the door controller against the service
\* The door the controller is built for (its idle screen shows 968).
DOOR_ID == LAB_968

\* The JSON body the controller receives for a /validate response: granted and
\* reason for the 403 answers, granted alone for the 200 answer.
ResponseBody(r) ==
    IF r.granted THEN Body(Some(TRUE), Undefined)
    ELSE IF r.code = 403 THEN Body(Some(FALSE), Some(r.text))
    ELSE NoBody

\* The relay reaches the service: the controller posts the token it took, its
\* RSSI, the distance it read and its door, and acts on the answer.
RelayValidate(token) ==
    /\ controller.state = "AwaitingDecision"
    /\ ValidateRequest(token, DOOR_ID, Some(controller.rssi),
                       Some(controller.distance))
    /\ controller' = Relayed(controller, TRUE, res'.code, ResponseBody(res'))

\* The relay does not reach the service: Wi-Fi is down or http.POST fails.
RelayFails(wifi) == Relay(wifi, -1, NoBody)

\* The relay is answered with an error: /validate's catch branch (500 with an
\* error member and neither granted nor reason), or an error page of the host
\* in front of it.
RelayError == Relay(TRUE, 500, NoBody)

DoRelayValidate == \E token \in TokenIds : RelayValidate(token)
DoRelayFails == \E wifi \in BOOLEAN : RelayFails(wifi)

NextEndToEnd ==
    \/ DoRequestTokenAlice
    \/ DoRevokeAlice
    \/ DoHandleUnlockRequest
    \/ DoLoopScan
    \/ DoReadSensor
    \/ DoRelayValidate
    \/ DoRelayFails
    \/ RelayError
    \/ UnlockServo
    \/ Relock
    \/ DenyDone
    \/ StatusDone
    \/ CooldownDone

\* Either firmware in front of the seeded service.
EndToEndSpec == InitController /\ [][NextEndToEnd]_vars

\* The relay of the current attempt is answered with the service's decision
\* in this step.
RelayStep ==
    /\ controller.state = "AwaitingDecision"
    /\ controller'.state # "AwaitingDecision"
    /\ controller'.httpCode > 0
    /\ controller'.body # NoBody

\* C24: a read of the sensor that accepted no frame does not end the attempt;
\* its relay carries the sentinel as the distance, is never granted and never
\* leads to Actuating(Grant); and if the token is Pending and unexpired, the
\* credential exists and covers the door and the RSSI is not too weak, the
\* answer is "distance_too_far" and the token is committed Denied.
C24_SentinelFailsClosed ==
    /\ [][(controller.state = "ReadingSensor" /\ controller'.state # "ReadingSensor")
            => controller'.state = "AwaitingDecision"]_vars
    /\ [][(RelayStep /\ ~FrameAccepted(controller.variant, controller.stream))
            => LET token == res'.token
                   entry == Get(short_tokens, token)
                   user == Get(enrollments, Val(entry).enrollment_token)
               IN  /\ res'.op = "validate"
                   /\ res'.distanceCm = Some(LIDAR_TIMEOUT)
                   /\ ~res'.granted
                   /\ controller'.state = "ActuatingDeny"
                   /\ grants' = grants
                   /\ (/\ EntryVerdict(entry, now) = "continue"
                       /\ IsDefined(user)
                       /\ CanAccess(Val(user).permissions, DOOR_ID)
                       /\ controller.rssi >= RSSI_THRESHOLD)
                      => /\ res'.text = "distance_too_far"
                         /\ short_tokens'[token].used = 2
                         /\ controller'.reason = "distance_too_far"]_vars

\* The ble firmware denies an attempt with "distance_too_far" after a read
\* that timed out on frames with wrong checksums; the token is Denied.
C24_Witness ==
    /\ controller.variant = "ble"
    /\ controller.state = "ActuatingDeny"
    /\ controller.distance = LIDAR_TIMEOUT
    /\ controller.rssi >= RSSI_THRESHOLD
    /\ controller.reason = "distance_too_far"
    /\ res.op = "validate"
    /\ res.text = "distance_too_far"
    /\ res.token \in DOMAIN short_tokens
    /\ short_tokens[res.token].used = 2

\* The relay of the current attempt ends in this step without a decision: no
\* Wi-Fi, no response, or the service's error response.
RelayFailureStep ==
    /\ controller.state = "AwaitingDecision"
    /\ controller'.state # "AwaitingDecision"
    /\ \/ controller'.httpCode <= 0
       \/ controller'.httpCode = 500 /\ controller'.body = NoBody

\* C25: a relay that ends without a decision is handled as a Deny with reason
\* "server_error": the controller goes to Actuating(Deny) with that reason,
\* the servo stays locked, the relay is not tried again within the attempt,
\* and the controller returns to Idle.
C25_InfrastructureFailureDenies ==
    /\ [][RelayFailureStep
            => /\ controller'.state = "ActuatingDeny"
               /\ controller'.reason = "server_error"
               /\ controller'.servo = LOCKED]_vars
    /\ [][(controller.state # "AwaitingDecision"
             /\ controller'.state = "AwaitingDecision")
            => controller.state = "ReadingSensor"]_vars
    /\ (controller.state = "AwaitingDecision" ~> controller.state = "Idle")

\* The order of one access attempt: each position and the positions that may
\* follow it.
AttemptOrder ==
    {<<"Idle", "ReadingSensor">>,
     <<"ReadingSensor", "AwaitingDecision">>,
     <<"AwaitingDecision", "ActuatingGrant">>,
     <<"AwaitingDecision", "ActuatingDeny">>,
     <<"AwaitingDecision", "ShowStatus">>,
     <<"ActuatingGrant", "Idle">>,
     <<"ActuatingGrant", "Cooldown">>,
     <<"ActuatingDeny", "Idle">>,
     <<"ActuatingDeny", "Cooldown">>,
     <<"ShowStatus", "Cooldown">>,
     <<"Cooldown", "Idle">>}

\* C26: at most one attempt is in flight.  A token is taken only in Idle, and
\* until the controller is Idle again every change of position follows the
\* order of one attempt (one sensor read, then one relay, then one actuation),
\* the token, the reading and the decision of the attempt are not replaced,
\* and the servo moves only inside Actuating(Grant).
C26_OneAttemptInFlight ==
    /\ [][controller'.state # controller.state
            => <<controller.state, controller'.state>> \in AttemptOrder]_vars
    /\ [][controller.state \notin {"Idle", "ReadingSensor"}
            => /\ controller'.distance = controller.distance
               /\ controller'.rssi = controller.rssi
               /\ controller'.tokenLength = controller.tokenLength]_vars
    /\ [][controller.state \notin {"Idle", "ReadingSensor", "AwaitingDecision"}
            => /\ controller'.httpCode = controller.httpCode
               /\ controller'.granted = controller.granted
               /\ controller'.reason = controller.reason]_vars
    /\ [][controller'.servo # controller.servo
            => controller.state = "ActuatingGrant"]_vars

\* The push firmware is Idle again after an attempt that the service denied
\* for a weak signal.
C26_Witness ==
    /\ controller.variant = "push"
    /\ controller.state = "Idle"
    /\ controller.tokenLength = TOKEN_LENGTH
    /\ controller.httpCode = 403
    /\ controller.reason = "rssi_too_weak"
    /\ controller.servo = LOCKED

\* ------------------------------------------ every entry point, any request
\* The three entry points that take requests from outside (the controller's
\* /unlock or scan, /validate, /request-token) with well-formed and malformed
\* requests.  The controller is cut off from its sensor and from the service:
\* no byte arrives during a read and every relay fails.
DoReadNothing == \E rssi \in RssiReadings : ReadSensor(<<>>, rssi)
\* /validate requests with and without token, door identifier and RSSI.
DoValidateFields ==
    \E token \in {0} \cup TokenIds, doorId \in {Undefined, DOOR_ID},
       rssi \in {Undefined, Some(RSSI_THRESHOLD)} :
        Validate(token, doorId, rssi, Some(DISTANCE_THRESHOLD))

NextInput ==
    \/ DoHandleUnlockRequest
    \/ DoLoopScan
    \/ DoReadNothing
    \/ DoRelayFails
    \/ DenyDone
    \/ StatusDone
    \/ CooldownDone
    \/ DoValidateFields
    \/ DoRequestToken

InputSpec == InitController /\ [][NextInput]_vars

\* The records of the service.
Records == <<enrollments, identity_map, short_tokens, rate_limits, issued, grants>>

\* This step is a /validate request that lacks the token or the door
\* identifier; res' holds its fields and its response.
MalformedValidateStep ==
    /\ res'.op = "validate"
    /\ res'.token = 0 \/ ~IsDefined(res'.doorId)
    /\ Validate(res'.token, res'.doorId, res'.rssi, res'.distanceCm)

\* C27: malformed input is rejected and nothing changes.  An /unlock request
\* without a body or with a token that is not 18 characters long leaves the
\* controller where it was (no sensor read, no relay, no actuation); a
\* /validate request without token or door identifier and a /request-token
\* without credential are answered 400 and leave every record and the
\* controller unchanged.
C27_MalformedInputChangesNothing ==
    /\ [][(\E hasBody \in BOOLEAN, tokenLength \in TokenLengths :
              /\ ~hasBody \/ tokenLength # TOKEN_LENGTH
              /\ HandleUnlockRequest(hasBody, tokenLength))
            => UNCHANGED <<controller, Records>>]_vars
    /\ [][(controller.state = "Idle" /\ controller'.state # "Idle")
            => (controller'.state = "ReadingSensor"
                  /\ controller'.tokenLength = TOKEN_LENGTH)]_vars
    /\ [][MalformedValidateStep
            => (res'.code = 400 /\ UNCHANGED <<controller, Records>>)]_vars
    /\ [][(res'.op = "request-token" /\ RequestToken(""))
            => (res'.code = 400 /\ UNCHANGED <<controller, Records>>)]_vars

\* A /validate request without a door identifier has been answered 400 while
\* the token it names is still Pending and the push controller is Idle.
C27_Witness ==
    /\ res.op = "validate"
    /\ res.token \in DOMAIN short_tokens
    /\ ~IsDefined(res.doorId)
    /\ res.code = 400
    /\ short_tokens[res.token].used = 0
    /\ controller.variant = "push"
    /\ controller.state = "Idle"

\* ------------------------------------- repeated validation and status polls
\* Concurrent /validate handlers next to status polls, issuance, revocation
\* and the clock.
NextRepeat ==
    \/ DoVReadEntry
    \/ DoVDelete
    \/ DoVReadUser
    \/ DoVWrite
    \/ DoCheckStatus
    \/ DoRequestTokenAlice
    \/ DoRevokeAlice
    \/ Tick

RepeatSpec == Init /\ [][NextRepeat]_vars

\* The reasons of the denials that commit the Denied state.
CommittingReasons ==
    {"access_revoked", "insufficient_permissions", "rssi_too_weak", "distance_too_far"}

\* The row of token t is Denied and unexpired.
Denied(t) ==
    /\ t \in DOMAIN short_tokens
    /\ short_tokens[t].expires_at > now
    /\ short_tokens[t].used = 2

\* C28: a /validate denied for revocation, permission, signal or distance
\* leaves the token's row Denied; a Denied row stays Denied for as long as it
\* exists and no grant is sent for it; every /validate that finds the row
\* Denied and unexpired answers "already_denied" and changes no record; and a
\* status poll of a Denied token answers "denied".
C28_DeniedIsTerminalAndIdempotent ==
    /\ [][((\E h \in Handlers : VWrite(h)) /\ res'.text \in CommittingReasons)
            => (res'.token \in DOMAIN short_tokens'
                  => short_tokens'[res'.token].used = 2)]_vars
    /\ [][\A t \in TokenIds :
            Denied(t) => /\ t \in DOMAIN short_tokens' => short_tokens'[t].used = 2
                         /\ grants'[t] = grants[t]]_vars
    /\ [][(res'.op = "validate" /\ Denied(res'.token)
             /\ \E h \in Handlers :
                   VReadEntry(h, res'.token, res'.doorId, res'.rssi, res'.distanceCm))
            => (res'.text = "already_denied" /\ ~res'.granted
                  /\ UNCHANGED <<enrollments, identity_map, short_tokens, rate_limits,
                                 issued, grants>>)]_vars
    /\ [][(res'.op = "check-status" /\ Denied(res'.token) /\ CheckStatus(res'.token))
            => res'.text = "denied"]_vars

\* The reasons of authorization denials.
Taxonomy ==
    {"unknown_or_expired", "expired", "already_used", "already_denied",
     "access_revoked", "insufficient_permissions", "rssi_too_weak",
     "distance_too_far"}

\* C29: every denial the service sends carries a reason of the taxonomy; the
\* controller takes over the reason of the denial it is answered with; and
\* whenever the controller is in Actuating(Deny), the reason it acts on is one
\* of the taxonomy or "server_error".
C29_DenialsCarrySpecificReason ==
    /\ []((res.op = "validate" /\ res.code = 403)
          => (~res.granted /\ res.text \in Taxonomy))
    /\ [][(RelayStep /\ ~res'.granted)
            => (controller'.state = "ActuatingDeny"
                  /\ controller'.reason = res'.text)]_vars
    /\ [](controller.state = "ActuatingDeny"
          => controller.reason \in Taxonomy \cup {"server_error"})

C31_NoGrantAtOrAfterExpiry ==
    /\ [][issued' # issued
            => /\ issued' = issued + 1
               /\ issued' \in DOMAIN short_tokens'
               /\ short_tokens'[issued'] =
                    [enrollment_token |-> res'.cred,
                     expires_at |-> now + 60,
                     used |-> 0]]_vars
    /\ [][\A t \in TokenIds :
            /\ (/\ t \in DOMAIN short_tokens'
                /\ short_tokens'[t].used = 1
                /\ (t \notin DOMAIN short_tokens \/ short_tokens[t].used # 1))
               => short_tokens'[t].expires_at > now
            /\ grants'[t] # grants[t]
               => (t \in DOMAIN short_tokens /\ short_tokens[t].expires_at > now)]_vars

\* ---------------------------------------------- claims: the timestamp list
\* The timestamp list l is, at time `time`, within the trailing window, at
\* most MAX_REQUESTS long and in non-decreasing order.
WellFormedList(l, time) ==
    /\ \A i \in 1..Len(l) : l[i] > time - WINDOW_MS /\ l[i] <= time
    /\ Len(l) <= 3
    /\ \A i \in 1..(Len(l) - 1) : l[i] <= l[i + 1]

\* C32: whenever a /request-token has gone through the rate-limit check and
\* stored the credential's row (admitted, or denied because the limit was
\* reached), the stored timestamps lie within the window trailing now, number
\* at most 3 and are in non-decreasing order.
C32_StoredTimestampsWellFormed ==
    [][\A c \in DOMAIN rate_limits' :
         (c \notin DOMAIN rate_limits \/ rate_limits'[c] # rate_limits[c])
         => WellFormedList(rate_limits'[c].requests, now)]_vars

\* ------------------------------------------- claims: the two firmwares
\* What a controller is about to do with the door after the relay.
Actuation(c) ==
    IF c.state = "ActuatingGrant" THEN "unlock"
    ELSE IF c.state = "ActuatingDeny" THEN "deny"
    ELSE "neither"

\* C33: the two firmwares differ only in how the attempt is triggered: from
\* the same bytes on Serial2 both decode the same distance, and from the same
\* outcome of the relay (no Wi-Fi, no response, or the same response) both
\* perform the same actuation.
C33_VariantsBehaveAlike ==
    controller.state = "AwaitingDecision" =>
        /\ GetRobustLidarDistance("push", controller.stream)
             = GetRobustLidarDistance("ble", controller.stream)
        /\ \A wifi \in BOOLEAN, httpCode \in HttpCodes, body \in Bodies :
              ((wifi \/ httpCode <= 0) /\ (httpCode <= 0 => body = NoBody))
              => Actuation(Relayed([controller EXCEPT !.variant = "push"],
                                   wifi, httpCode, body))
                   = Actuation(Relayed([controller EXCEPT !.variant = "ble"],
                                       wifi, httpCode, body))

\* ------------------------------------------- issuance over several windows
\* One credential requesting tokens for longer than a window: the clock runs
\* for MaxWindowTicks cleanup intervals and up to MaxWindowTokens tokens are
\* issued.  The token sweep is left out, so that short_tokens keeps every
\* token issued and its time of issuance (expires_at - SHORT_TOKEN_TTL_MS).
MaxWindowTicks == 7
MaxWindowTokens == 5

InitWindow ==
    /\ InitRate
    /\ rate_limits = EmptyTable

DoRequestTokenWindow == RequestTokenUpTo(ALICE, MaxWindowTokens)
TickWindow == TickUpTo(StartMs + MaxWindowTicks * CLEANUP_TOKEN_INTERVAL_MS)

NextWindow ==
    \/ DoRequestTokenWindow
    \/ TickWindow

WindowSpec == InitWindow /\ [][NextWindow]_vars

\* The tokens issued to credential c at a time in (t, t + 180].
IssuedWithin(c, t) ==
    {k \in DOMAIN short_tokens :
        /\ short_tokens[k].enrollment_token = c
        /\ short_tokens[k].expires_at - SHORT_TOKEN_TTL_MS > t
        /\ short_tokens[k].expires_at - SHORT_TOKEN_TTL_MS <= t + 180}

\* C34: in a sequential history of /request-token for one credential, with or
\* without suspensions, the tokens issued within any interval (t, t + 180]
\* number at most 3.
C34_AtMostThreePerWindow ==
    \A t \in (StartMs - 180)..now : Cardinality(IssuedWithin(ALICE, t)) <= 3

\* A token has been issued after a suspension that followed three tokens
\* within one window.
C34_Witness ==
    /\ issued >= 4
    /\ res.op = "request-token"
    /\ res.code = 200
    /\ Cardinality(IssuedWithin(ALICE, short_tokens[1].expires_at
                                         - SHORT_TOKEN_TTL_MS - 1)) = 3
    /\ short_tokens[4].expires_at >= short_tokens[3].expires_at + WINDOW_MS

\* ------------------------------------------ claims: the grant and its row
\* C35: a {granted: true} response is sent only by a handler whose write
\* moved the token's row from Pending to Granted: the row existed and was
\* Pending when the write took effect, and right after the response the row
\* is there and Granted (a status poll would answer "granted"), whatever the
\* token sweep, another /validate or a revocation did in between.
C35_GrantCommittedByItsRequest ==
    /\ [][((\E h \in Handlers : VWrite(h)) /\ res'.granted)
            => /\ res'.token \in DOMAIN short_tokens
               /\ short_tokens[res'.token].used = 0
               /\ res'.token \in DOMAIN short_tokens'
               /\ short_tokens'[res'.token].used = 1]_vars
    /\ []((res.op = "validate" /\ res.granted)
          => /\ res.token \in DOMAIN short_tokens
             /\ short_tokens[res.token].used = 1)

\* --------------------------------------- what a /validate request changes
\* The server with one short token of Alice's already stored and run out
\* (issued one token lifetime before the run begins, not yet swept), further
\* tokens issued during the run, and /validate requests served by
\* interleaved handlers.
InitFrame ==
    /\ now = StartMs
    /\ enrollments = (ALICE :> [permissions |-> LAB_968, created_at |-> 0,
                               expires_at |-> StartMs + DEFAULT_ENROLL_MS]
                      @@ EVE :> [permissions |-> ALL, created_at |-> 0, expires_at |-> 0])
    /\ identity_map = (ALICE_ID :> ALICE @@ EVE_ID :> EVE)
    /\ short_tokens = (1 :> [enrollment_token |-> ALICE,
                            expires_at |-> StartMs,
                            used |-> 0])
    /\ rate_limits = (ALICE :> [requests |-> <<StartMs - SHORT_TOKEN_TTL_MS>>,
                               suspended_until |-> 0])
    /\ issued = 1
    /\ grants = [t \in TokenIds |-> 0]
    /\ res = NoResponse
    /\ handlers = [h \in Handlers |-> IdleHandler]
    /\ controller = Boot("push")

NextFrame ==
    \/ DoVReadEntry
    \/ DoVDelete
    \/ DoVReadUser
    \/ DoVWrite
    \/ DoRequestTokenAlice
    \/ DoRevokeAlice

FrameSpec == InitFrame /\ [][NextFrame]_vars

\* ------------------------------------------- claims: what /validate touches
\* The token of the /validate request that takes a step here, or 0 if the
\* step belongs to no /validate request.
SteppingToken ==
    IF \E h \in Handlers : handlers'[h] # handlers[h]
    THEN LET h == CHOOSE g \in Handlers : handlers'[g] # handlers[g]
         IN  IF handlers[h].pc = "idle" THEN handlers'[h].token ELSE handlers[h].token
    ELSE IF res'.op = "validate" /\ res' # res THEN res'.token
    ELSE 0

\* C36: a step of a /validate request for token k changes at most the row of
\* k in short_tokens, by writing its state or by deleting it: every other
\* row, the credentials, the identity map and the rate-limit records stay as
\* they are, and if k has no row nothing changes at all.
C36_ValidateTouchesOwnRowOnly ==
    [][SteppingToken # 0 =>
         LET k == SteppingToken
         IN  /\ UNCHANGED <<enrollments, identity_map, rate_limits, issued, now>>
             /\ \A t \in TokenIds \ {k} :
                   /\ (t \in DOMAIN short_tokens') = (t \in DOMAIN short_tokens)
                   /\ t \in DOMAIN short_tokens => short_tokens'[t] = short_tokens[t]
             /\ k \notin DOMAIN short_tokens => short_tokens' = short_tokens
             /\ (k \in DOMAIN short_tokens /\ k \in DOMAIN short_tokens')
                => short_tokens'[k] = [short_tokens[k] EXCEPT
                                         !.used = short_tokens'[k].used]]_vars

\* A /validate has granted token 2 while the row of token 1 is still stored
\* untouched and the rate-limit record of the credential holds both issuances.
C36_Witness ==
    /\ res.op = "validate" /\ res.granted /\ res.token = 2
    /\ DOMAIN short_tokens = {1, 2}
    /\ short_tokens[2].used = 1 /\ short_tokens[1].used = 0
    /\ ALICE \in DOMAIN rate_limits /\ Len(rate_limits[ALICE].requests) = 2


\* --------------------------------------------- revocation and enrollment
\* The life of one credential: Alice requests tokens, an administrator
\* revokes her and enrolls her credential string again, door controllers
\* relay her tokens, and the clock moves.
NextRevoke ==
    \/ DoRequestTokenAlice
    \/ DoRevokeAlice
    \/ DoEnrollAlice
    \/ DoValidateSome
    \/ Tick

RevokeSpec == Init /\ [][NextRevoke]_vars

\* -------------------------------------------- claims: revocation is final
\* The instant at which the row of token t was inserted.
IssuedAt(t) == short_tokens[t].expires_at - SHORT_TOKEN_TTL_MS

\* C37: once a credential has been revoked, no short token issued under it
\* before the revocation is granted afterwards, a new enrollment of the same
\* credential string included: a granted token's credential row is never
\* younger than the token (a younger row means that the row the token was
\* issued under has been revoked in between).
C37_RevocationIsFinal ==
    \A t \in DOMAIN short_tokens :
        (res.op = "validate" /\ res.granted /\ res.token = t)
            => /\ Owner(t) \in DOMAIN enrollments
               /\ enrollments[Owner(t)].created_at <= IssuedAt(t)

\* -------------------------------------------- claims: frame alignment
\* Position i of s is where a frame of the sensor begins: the stream ends
\* with the last byte of a frame, and frames are FRAME_LENGTH bytes long.
FrameStart(s, i) ==
    /\ i >= 1
    /\ i + FRAME_LENGTH - 1 <= Len(s)
    /\ (Len(s) - (i - 1)) % FRAME_LENGTH = 0

\* C38: a read of the sensor that returns a value other than the sentinel
\* returns the distance field of a whole frame at the place where the sensor
\* sent it, behind its own two sync bytes: a sync-valued byte in front of a
\* frame never makes the decoder assemble a distance from shifted bytes.
C38_DistanceFromAlignedFrame ==
    (controller.state = "AwaitingDecision" /\ controller.distance # LIDAR_TIMEOUT)
        => LET s == controller.stream
           IN  \E i \in 1..Len(s) :
                  /\ FrameStart(s, i)
                  /\ s[i] = SYNC
                  /\ s[i + 1] = SYNC
                  /\ controller.distance = s[i + 2] + s[i + 3] * 256


\* ------------------------------------------- the checks of /request-token
\* /request-token against every combination of credential and rate-limit
\* row: Alice's enrollment runs out one clock step into the run or not at
\* all, her rate_limits row is as earlier requests can have left it, she can
\* be revoked (her credential is then unknown while her rate_limits row
\* stays), and Eve's enrollment has run out.
InitOrder ==
    /\ now = StartMs
    /\ \E credExpiry \in {StartMs + CLEANUP_TOKEN_INTERVAL_MS, StartMs + DEFAULT_ENROLL_MS} :
          enrollments = (ALICE :> [permissions |-> LAB_968, created_at |-> 0, expires_at |-> credExpiry]
                         @@ EVE :> [permissions |-> ALL, created_at |-> 0, expires_at |-> 0])
    /\ identity_map = (ALICE_ID :> ALICE @@ EVE_ID :> EVE)
    /\ short_tokens = EmptyTable
    /\ rate_limits \in {EmptyTable} \cup {(ALICE :> row) : row \in RateRows}
    /\ issued = 0
    /\ grants = [t \in TokenIds |-> 0]
    /\ res = NoResponse
    /\ handlers = [h \in Handlers |-> IdleHandler]
    /\ controller = Boot("push")

NextOrder ==
    \/ DoRequestToken
    \/ DoRevokeAlice
    \/ Tick

OrderSpec == InitOrder /\ [][NextOrder]_vars

\* ------------------------------------- claims: what issuance presupposes
\* This step is a /request-token with a credential in its body.
IssuanceStep ==
    /\ res'.op = "request-token"
    /\ res'.cred # ""
    /\ res' # res

\* C39: a short_tokens row is created only by a /request-token whose
\* credential exists, has passed the expiry check and is admitted by the rate
\* limiter (not suspended, window not full); the checks run in that order,
\* so an unknown credential is answered "unknown enrollmentToken" and an
\* expired one "enrollment_expired" whatever its rate_limits row holds; every
\* denied request creates no token, and the unknown and expired denials
\* leave rate_limits as it is.
C39_IssuanceOnlyAfterAllChecks ==
    /\ [][DOMAIN short_tokens' \ DOMAIN short_tokens # {}
            => LET cred == res'.cred
               IN  /\ res'.op = "request-token"
                   /\ res'.code = 200
                   /\ DOMAIN short_tokens' \ DOMAIN short_tokens = {res'.token}
                   /\ short_tokens'[res'.token].enrollment_token = cred
                   /\ cred \in DOMAIN enrollments
                   /\ enrollments[cred].expires_at >= now
                   /\ RateData(cred).suspended_until <= now
                   /\ InWindow(RateData(cred).requests, now) < MAX_REQUESTS]_vars
    /\ [][(IssuanceStep /\ res'.code # 200)
            => (short_tokens' = short_tokens /\ issued' = issued)]_vars
    /\ [][(IssuanceStep /\ res'.cred \notin DOMAIN enrollments)
            => (/\ res'.code = 403
                /\ res'.text = "unknown enrollmentToken"
                /\ rate_limits' = rate_limits)]_vars
    /\ [][(/\ IssuanceStep
           /\ res'.cred \in DOMAIN enrollments
           /\ enrollments[res'.cred].expires_at < now)
            => (/\ res'.code = 403
                /\ res'.text = "enrollment_expired"
                /\ rate_limits' = rate_limits)]_vars
    /\ [][(IssuanceStep /\ res'.code = 403) => rate_limits' = rate_limits]_vars

\* A request of Alice's was denied "enrollment_expired" while her rate_limits
\* row holds a suspension that has not ended: the expiry check came first and
\* the row was left as it was.
C39_Witness ==
    /\ res.op = "request-token"
    /\ res.cred = ALICE
    /\ res.text = "enrollment_expired"
    /\ ALICE \in DOMAIN rate_limits
    /\ rate_limits[ALICE].suspended_until > now
    /\ issued >= 1

=============================================================================
